---------------------------- MODULE Spec2Model ----------------------------
(***************************************************************************)
(* Silver-layer dissolve of the unified pipeline: the adjacent-polygon     *)
(* merge of WetlandsSilver._create_dissolved_df, the union dissolve of     *)
(* WaterProjectsSilver._create_dissolved_df, the geometry repair           *)
(* validate_and_transform_geometries they both end with, and the run()     *)
(* that persists the results.                                              *)
(*                                                                         *)
(* Geometry is rectilinear: a polygon is the set of grid cells it covers   *)
(* (a cell is GridStep x GridStep source units), so that intersections,    *)
(* unions, lengths and bounding boxes are computed, not assumed.  How a    *)
(* geometry answers buffer(0), is_valid, is_simple, is_empty and a         *)
(* reprojection is carried by its health.                                  *)
(***************************************************************************)
EXTENDS Integers, Sequences, FiniteSets

VARIABLES
    pipeline,         \* which silver job runs: "wetlands" or "water_projects"
    pc,               \* position in run() / _create_dissolved_df
    geo_df,           \* run(): the parsed collection
    pos,              \* merge loop: number of rows df.iterrows() has yielded
    merged,           \* merge loop: the set `merged`
    merged_polygons,  \* merge loop: the list `merged_polygons` (with its members)
    dissolved_gdf,    \* _create_dissolved_df: the local dissolved_gdf
    validation,       \* the last call of validate_and_transform_geometries
    dissolved_df,     \* run(): what _create_dissolved_df returned
    error,            \* the exception that propagated, if any
    errlog,           \* error-level log messages
    saved,            \* datasets written by _save_data, in order
    save_calls,       \* number of calls of _save_data
    run_no,           \* 1, or 2 in the second call of the merge on the same input
    first_groups,     \* the groups of the first call, kept for comparison
    probe,            \* the arguments of a function called on its own
    report,           \* what that call returned
    fetch,            \* bronze run(): _fetch_raw_data / _fetch_wfs_data and what was saved
    chunks,           \* bronze: the _fetch_chunk calls under way, in the order they were created
    request_semaphore \* bronze: config.request_semaphore

vars == << pipeline, pc, geo_df, pos, merged, merged_polygons, dissolved_gdf,
           validation, dissolved_df, error, errlog, saved, save_calls,
           run_no, first_groups, probe, report,
           fetch, chunks, request_semaphore >>

\* The state of the bronze job.
bronze == << fetch, chunks, request_semaphore >>

\* Largest number of features in a collection.
MaxFeatures == 3

\* Resolution of the modelled coordinates: the test polygons have
\* coordinates that are multiples of 5.
GridStep == 5

\* `intersection.length >= 10`
EdgeShareThreshold == 10

METRIC_CRS == "EPSG:25832"
WGS84_CRS == "EPSG:4326"

---------------------------------------------------------------------------
(* Sequences and sets                                                      *)

Range(s) == { s[k] : k \in 1..Len(s) }

Injective(s) == \A a, b \in 1..Len(s) : s[a] = s[b] => a = b

\* All orders in which the elements of S can be listed.
OrdersOf(S) ==
    { s \in [1..Cardinality(S) -> S] : Range(s) = S }

Min(S) == CHOOSE a \in S : \A b \in S : a <= b
Max(S) == CHOOSE a \in S : \A b \in S : a >= b

---------------------------------------------------------------------------
(* Geometry (shapely)                                                      *)

\* The cells of the axis-parallel rectangle (x1, y1)-(x2, y2), source units.
Rect(x1, y1, x2, y2) ==
    { <<x, y>> : x \in (x1 \div GridStep)..((x2 \div GridStep) - 1),
                 y \in (y1 \div GridStep)..((y2 \div GridStep) - 1) }

Geom(cells, spine, health) ==
    [ cells |-> cells, spine |-> spine, health |-> health,
      frame |-> METRIC_CRS, drift |-> 0 ]

\* A feature whose geometry is None.
NullGeom == Geom({}, {}, "null")

EdgesOfCell(c) ==
    { <<"h", c[1], c[2]>>, <<"h", c[1], c[2] + 1>>,
      <<"v", c[1], c[2]>>, <<"v", c[1] + 1, c[2]>> }

\* Unit segments on which the geometry lies: the sides of its cells, and
\* the linework of a polygon without area.
Linework(g) == UNION { EdgesOfCell(c) : c \in g.cells } \cup g.spine

NodesOfEdge(e) ==
    IF e[1] = "h" THEN { <<e[2], e[3]>>, <<e[2] + 1, e[3]>> }
                  ELSE { <<e[2], e[3]>>, <<e[2], e[3] + 1>> }

Nodes(g) == UNION { NodesOfEdge(e) : e \in Linework(g) }

\* Unit segments on the boundary of a set of cells.
BoundaryEdges(cells) ==
    { e \in UNION { EdgesOfCell(c) : c \in cells } :
        Cardinality({ c \in cells : e \in EdgesOfCell(c) }) = 1 }

\* The segments form one straight, gap-free run.
IsStraightRun(E) ==
    /\ E # {}
    /\ \A e, f \in E :
          /\ e[1] = f[1]
          /\ IF e[1] = "h" THEN e[3] = f[3] ELSE e[2] = f[2]
    /\ LET at == { IF e[1] = "h" THEN e[2] ELSE e[3] : e \in E }
       IN  Max(at) - Min(at) + 1 = Cardinality(E)

\* geom1.intersection(geom2): its geom_type and its length.  Geometries that
\* share a cell intersect in an area; otherwise they meet in the segments and
\* the isolated points their boundaries have in common.  A straight run is
\* one LineString; overlay does not merge the pieces of any other linework.
intersection(g1, g2) ==
    LET area == g1.cells \cap g2.cells
        E == Linework(g1) \cap Linework(g2)
        P == (Nodes(g1) \cap Nodes(g2)) \ UNION { NodesOfEdge(e) : e \in E }
    IN  IF area # {}
          THEN [ geom_type |-> "Polygon",
                 length |-> GridStep * Cardinality(BoundaryEdges(area)) ]
        ELSE IF E # {} /\ P # {}
          THEN [ geom_type |-> "GeometryCollection",
                 length |-> GridStep * Cardinality(E) ]
        ELSE IF E # {}
          THEN [ geom_type |-> IF IsStraightRun(E) THEN "LineString"
                                                   ELSE "MultiLineString",
                 length |-> GridStep * Cardinality(E) ]
        ELSE IF Cardinality(P) = 1 THEN [ geom_type |-> "Point", length |-> 0 ]
        ELSE IF P # {} THEN [ geom_type |-> "MultiPoint", length |-> 0 ]
        ELSE [ geom_type |-> "EmptyGeometry", length |-> 0 ]

\* geom.bounds: (minx, miny, maxx, maxy).
bounds(g) ==
    LET xs == { p[1] : p \in Nodes(g) }
        ys == { p[2] : p \in Nodes(g) }
    IN  << GridStep * Min(xs), GridStep * Min(ys),
           GridStep * Max(xs), GridStep * Max(ys) >>

BoxesIntersect(a, b) ==
    a[1] <= b[3] /\ b[1] <= a[3] /\ a[2] <= b[4] /\ b[2] <= a[4]

\* Health of a union: a union of valid parts is valid; a part that is not
\* keeps the union in its state.
UnionHealth(hs) ==
    IF hs \subseteq {"valid"} THEN "valid"
    ELSE IF "stubborn" \in hs THEN "stubborn"
    ELSE IF "bowtie" \in hs THEN "bowtie"
    ELSE IF "tangled" \in hs THEN "tangled"
    ELSE IF "fragile" \in hs THEN "fragile"
    ELSE IF "collapsed" \in hs /\ hs \subseteq {"collapsed", "empty"}
      THEN "collapsed"
    ELSE IF hs \subseteq {"empty"} THEN "empty"
    ELSE "valid"

\* unary_union of a non-empty list of geometries.
unary_union(gs) ==
    [ cells |-> UNION { gs[k].cells : k \in 1..Len(gs) },
      spine |-> {},
      health |-> UnionHealth({ gs[k].health : k \in 1..Len(gs) }),
      frame |-> gs[1].frame,
      drift |-> Max({ gs[k].drift : k \in 1..Len(gs) }) ]

\* A buffer with a distance other than 0: the polygon grows by a cell.
buffer_grows(g) ==
    IF g.health = "null" THEN g
    ELSE [ g EXCEPT !.cells = @ \cup { <<c[1] + 1, c[2]>> : c \in @ },
                    !.health = IF @ \in { "bowtie", "collapsed" } THEN "valid" ELSE @ ]

\* g.buffer(0): repairs a self-intersection, turns a polygon without area
\* into the empty geometry, and leaves the rest as it is.
buffer0(g) ==
    IF g.health = "bowtie" THEN [ g EXCEPT !.health = "valid" ]
    ELSE IF g.health = "collapsed"
      THEN [ g EXCEPT !.health = "empty", !.cells = {}, !.spine = {} ]
    ELSE g

is_valid(g) == g.health \in {"valid", "empty", "fragile", "tangled"}
is_simple(g) == g.health \in {"valid", "empty", "fragile"}
is_empty(g) == g.health = "empty"
is_null(g) == g.health = "null"

\* Reprojection of one geometry: the coordinates move to the other frame
\* (with rounding), and a geometry that is only just valid in metres is no
\* longer valid in degrees.
reproject(g, crs) ==
    IF is_null(g) \/ g.frame = crs THEN g
    ELSE [ g EXCEPT !.frame = crs,
                    !.drift = @ + 1,
                    !.health = IF crs = WGS84_CRS /\ @ = "fragile"
                                 THEN "stubborn" ELSE @ ]


\* The cells connected to the cells in `seen` through shared sides.
RECURSIVE Flood(_, _)
Flood(seen, cells) ==
    LET more == { c \in cells \ seen :
                    \E d \in seen : EdgesOfCell(c) \cap EdgesOfCell(d) # {} }
    IN  IF more = {} THEN seen ELSE Flood(seen \cup more, cells)

\* The polygons a set of cells falls into: cells that only share a corner
\* belong to different polygons.
RECURSIVE Components(_)
Components(cells) ==
    IF cells = {} THEN {}
    ELSE LET c == CHOOSE c \in cells :
                     \A d \in cells : c[1] < d[1] \/ (c[1] = d[1] /\ c[2] <= d[2])
             part == Flood({c}, cells)
         IN  {part} \cup Components(cells \ part)

geom_type(g) ==
    IF Cardinality(Components(g.cells)) > 1 THEN "MultiPolygon" ELSE "Polygon"

---------------------------------------------------------------------------
(* Collections (GeoDataFrame)                                              *)

Row(g, id) == [ geometry |-> g, wetland_id |-> id ]

GeoDataFrame(geoms, crs, columns) ==
    [ is_none |-> FALSE, crs |-> crs, columns |-> columns,
      rows |-> [ k \in 1..Len(geoms) |-> Row(geoms[k], 0) ] ]

\* Python's None where a collection is expected.
None == [ is_none |-> TRUE, crs |-> "none", columns |-> {}, rows |-> << >> ]

Geometries(gdf) == [ k \in 1..Len(gdf.rows) |-> gdf.rows[k].geometry ]

MapGeometry(gdf, Op(_)) ==
    [ gdf EXCEPT !.rows =
        [ k \in 1..Len(gdf.rows) |->
            [ gdf.rows[k] EXCEPT !.geometry = Op(gdf.rows[k].geometry) ] ] ]

\* gdf.to_crs(crs)
to_crs(gdf, crs) ==
    [ MapGeometry(gdf, LAMBDA g : reproject(g, crs)) EXCEPT !.crs = crs ]

\* gdf[keep]: the rows that satisfy Keep, in their order.
FilterRows(gdf, Keep(_)) ==
    [ gdf EXCEPT !.rows = SelectSeq(gdf.rows, LAMBDA r : Keep(r.geometry)) ]

CountRows(gdf, Test(_)) ==
    Cardinality({ k \in 1..Len(gdf.rows) : Test(gdf.rows[k].geometry) })

\* df.empty
IsEmptyFrame(gdf) == Len(gdf.rows) = 0

---------------------------------------------------------------------------
(* The features the parser can deliver                                     *)

\* The polygons of the silver tests, and polygons that need repair.
CellA == Geom(Rect(0, 0, 10, 10), {}, "valid")
CellB == Geom(Rect(10, 0, 20, 10), {}, "valid")     \* full edge with A
CellC == Geom(Rect(20, 0, 30, 10), {}, "valid")     \* full edge with B
HalfD == Geom(Rect(0, 10, 5, 20), {}, "valid")      \* 5 units of A's edge
CornerE == Geom(Rect(10, 10, 20, 20), {}, "valid")  \* a corner of A, an edge of B
OverlapO == Geom(Rect(5, 0, 15, 10), {}, "valid")   \* covers part of A and B
BarF == Geom(Rect(40, 0, 55, 5), {}, "valid")
ArchG == Geom(Rect(40, 5, 45, 15) \cup Rect(45, 10, 50, 15) \cup Rect(50, 5, 55, 15),
              {}, "valid")                          \* two separate 5-unit contacts with F
Bowtie == Geom(Rect(0, 100, 10, 110), {}, "bowtie")
Stubborn == Geom(Rect(10, 100, 20, 110), {}, "stubborn")  \* full edge with Bowtie
Collapsed == Geom({}, { <<"h", 8, 20>>, <<"h", 9, 20>> }, "collapsed")
Fragile == Geom(Rect(60, 100, 70, 110), {}, "fragile")
Tangled == Geom(Rect(80, 100, 90, 110), {}, "tangled")

Catalogue ==
    { CellA, CellB, CellC, HalfD, CornerE, OverlapO, BarF, ArchG,
      Bowtie, Stubborn, Collapsed, Fragile, Tangled }

FeatureLists(lo) == UNION { [1..n -> Catalogue] : n \in lo..MaxFeatures }

InputColumns == { "attributes", "geometry" }

---------------------------------------------------------------------------
(* The adjacency merge of WetlandsSilver._create_dissolved_df              *)

\* shares_edge with `>` for `>=`.
shares_edge_at_strict(geom1, geom2, threshold) ==
    LET inter == intersection(geom1, geom2)
    IN  inter.geom_type = "LineString" /\ inter.length > threshold

\* shares_edge that accepts any contact of the two boundaries.
shares_edge_at_touching(geom1, geom2, threshold) ==
    LET inter == intersection(geom1, geom2)
    IN  /\ inter.geom_type \in { "Point", "MultiPoint", "LineString",
                                 "MultiLineString", "GeometryCollection" }
        /\ (inter.length >= threshold \/ inter.length = 0)

\* shares_edge with a bound relative to the outline of the first polygon.
shares_edge_at_relative(geom1, geom2, threshold) ==
    LET inter == intersection(geom1, geom2)
    IN  /\ inter.geom_type = "LineString"
        /\ 6 * inter.length >= GridStep * Cardinality(BoundaryEdges(geom1.cells))

\* shares_edge with the length bound as a parameter.
shares_edge_at(geom1, geom2, threshold) ==
    LET inter == intersection(geom1, geom2)
    IN  inter.geom_type = "LineString" /\ inter.length >= threshold

shares_edge(geom1, geom2) == shares_edge_at(geom1, geom2, EdgeShareThreshold)

\* geom1.intersection(geom2) can raise: on an operand that is not valid GEOS
\* may throw a TopologyException instead of returning a geometry.
intersection_can_raise(geom1, geom2) == ~is_valid(geom1) \/ ~is_valid(geom2)

TopologyError == [ type |-> "GEOSException", text |-> "TopologyException", count |-> 0,
         dataset |-> "" ]

\* An index that returns only the rows whose box overlaps the box in area.
sindex_overlap_only(df, box) ==
    { j \in 1..Len(df.rows) :
        LET b == bounds(df.rows[j].geometry)
        IN  b[1] < box[3] /\ box[1] < b[3] /\ b[2] < box[4] /\ box[2] < b[4] }


\* list(spatial_index.intersection(bounds)): the positions of the rows whose
\* bounding box meets the box, the row itself among them.
sindex_intersection(df, box) ==
    { j \in 1..Len(df.rows) : BoxesIntersect(bounds(df.rows[j].geometry), box) }

\* The test of a match without `match_idx not in merged`.
MatchJoinsIgnoringMerged(df, idx, match_idx, mergedNow) ==
    /\ match_idx # idx
    /\ shares_edge(df.rows[idx].geometry, df.rows[match_idx].geometry)

\* `if match_idx != idx and match_idx not in merged:
\*      if shares_edge(row["geometry"], match_row["geometry"]):`
MatchJoins(df, idx, match_idx, mergedNow) ==
    /\ match_idx # idx
    /\ match_idx \notin mergedNow
    /\ shares_edge(df.rows[idx].geometry, df.rows[match_idx].geometry)

\* The loop over possible_matches, from its k-th row on.
RECURSIVE ScanMatches(_, _, _, _, _, _)
ScanMatches(df, idx, matches, k, group, mergedNow) ==
    IF k > Len(matches) THEN [ group |-> group, merged |-> mergedNow ]
    ELSE IF MatchJoins(df, idx, matches[k], mergedNow)
      THEN ScanMatches(df, idx, matches, k + 1,
                       Append(group, matches[k]), mergedNow \cup {matches[k]})
    ELSE ScanMatches(df, idx, matches, k + 1, group, mergedNow)

\* A group that keeps growing through the neighbours of its members.
RECURSIVE ExpandGroup(_, _, _)
ExpandGroup(df, group, mergedNow) ==
    LET more == { j \in (1..Len(df.rows)) \ mergedNow :
                    \E m \in Range(group) :
                       shares_edge(df.rows[m].geometry, df.rows[j].geometry) }
    IN  IF more = {} THEN [ group |-> group, merged |-> mergedNow ]
        ELSE ExpandGroup(df, Append(group, Min(more)), mergedNow \cup { Min(more) })

CollectGroupTransitive(df, idx, matches, mergedBefore) ==
    ExpandGroup(df, <<idx>>, mergedBefore \cup {idx})

\* A scan that stops at the first match that joins.
CollectGroupFirstOnly(df, idx, matches, mergedBefore) ==
    LET joins == SelectSeq(matches,
                   LAMBDA j : MatchJoins(df, idx, j, mergedBefore \cup {idx}))
    IN  IF joins = << >>
          THEN [ group |-> <<idx>>, merged |-> mergedBefore \cup {idx} ]
          ELSE [ group |-> <<idx, joins[1]>>,
                 merged |-> mergedBefore \cup { idx, joins[1] } ]

\* A scan that leaves out `merged.add(idx)`.
CollectGroupSeedUnmarked(df, idx, matches, mergedBefore) ==
    LET got == ScanMatches(df, idx, matches, 1, <<idx>>, mergedBefore \cup {idx})
    IN  [ group |-> got.group, merged |-> got.merged \ {idx} ]


\* current_group for the row idx: the row itself, then the matches that join,
\* in the order the index returned them.
CollectGroup(df, idx, matches, mergedBefore) ==
    ScanMatches(df, idx, matches, 1, <<idx>>, mergedBefore \cup {idx})

\* A merge that sends every group through unary_union.
MergeGroupAlwaysUnion(df, members) ==
    unary_union([ k \in 1..Len(members) |-> df.rows[members[k]].geometry ])

\* `if len(current_group) > 1: unary_union(current_group) else current_group[0]`
MergeGroup(df, members) ==
    IF Len(members) > 1
      THEN unary_union([ k \in 1..Len(members) |-> df.rows[members[k]].geometry ])
      ELSE df.rows[members[1]].geometry

\* `range(len(dissolved_gdf))`
wetland_ids_from_zero(n) == [ k \in 1..n |-> k - 1 ]

\* `range(1, len(dissolved_gdf) + 1)`
wetland_ids(n) == [ k \in 1..n |-> k ]

\* gpd.GeoDataFrame(geometry=merged_polygons, crs=df.crs) with its wetland_id.
BuildDissolvedFrame(polys, crs) ==
    LET ids == wetland_ids(Len(polys))
    IN  [ is_none |-> FALSE, crs |-> crs,
          columns |-> { "geometry", "wetland_id" },
          rows |-> [ k \in 1..Len(polys) |-> Row(polys[k].geometry, ids[k]) ] ]

\* log_geometry_statistics raises: on a frame without rows stats_df has no
\* "width" column, and analyze_geometry needs geom.bounds and geom.exterior.
StatisticsError(gdf) ==
    IF \E k \in 1..Len(gdf.rows) : is_null(gdf.rows[k].geometry)
      THEN [ type |-> "AttributeError", text |-> "NoneType has no bounds", count |-> 0,
         dataset |-> "" ]
    ELSE IF \E k \in 1..Len(gdf.rows) : geom_type(gdf.rows[k].geometry) # "Polygon"
      THEN [ type |-> "AttributeError", text |-> "no exterior", count |-> 0,
         dataset |-> "" ]
    ELSE IF Len(gdf.rows) = 0
      THEN [ type |-> "KeyError", text |-> "width", count |-> 0,
         dataset |-> "" ]
    ELSE [ type |-> "none", text |-> "", count |-> 0,
         dataset |-> "" ]

NoError == [ type |-> "none", text |-> "", count |-> 0,
         dataset |-> "" ]

---------------------------------------------------------------------------
(* validate_and_transform_geometries                                       *)

NoValidation ==
    [ called |-> FALSE, raised |-> FALSE, error |-> NoError, label |-> "",
      steps |-> << >>, input |-> None, repaired |-> None, result |-> None,
      initial_count |-> 0, final_count |-> 0 ]

\* An exception whose message does not give the number of geometries.
RaisesNoCount(gdf, label, steps, type, text, count) ==
    [ called |-> TRUE, raised |-> TRUE,
      error |-> [ type |-> type, text |-> text, count |-> 0, dataset |-> "" ],
      label |-> label, steps |-> steps, input |-> gdf, repaired |-> None,
      result |-> None, initial_count |-> Len(gdf.rows), final_count |-> 0 ]

\* `raise ValueError(f"Found {n} ...")`: the exception with the number its
\* message gives and the dataset it names (none); dataset_name is on the log
\* lines only, kept here as `label`.

Raises(gdf, label, steps, type, text, count) ==
    [ called |-> TRUE, raised |-> TRUE,
      error |-> [ type |-> type, text |-> text, count |-> count,
         dataset |-> "" ],
      label |-> label, steps |-> steps, input |-> gdf, repaired |-> None,
      result |-> None, initial_count |-> Len(gdf.rows), final_count |-> 0 ]

\* The cleanup without the removal of empty geometries.
DropNullOnly(gdf) == FilterRows(gdf, LAMBDA g : ~is_null(g))

\* `gdf = gdf.dropna(subset=['geometry']); gdf = gdf[~gdf.geometry.is_empty]`
DropNullAndEmpty(gdf) ==
    FilterRows(FilterRows(gdf, LAMBDA g : ~is_null(g)), LAMBDA g : ~is_empty(g))

\* An end of the repair that removes what is still invalid or not simple
\* instead of raising.
ValidateInWgs84Lenient(gdf, label, steps, g4) ==
    LET kept == DropNullAndEmpty(
                  FilterRows(g4, LAMBDA g : is_valid(g) /\ is_simple(g)))
    IN  [ called |-> TRUE, raised |-> FALSE, error |-> NoError, label |-> label,
          steps |-> steps \o <<"is_valid", "is_simple", "drop">>,
          input |-> gdf, repaired |-> g4, result |-> kept,
          initial_count |-> Len(gdf.rows), final_count |-> Len(kept.rows) ]

\* The checks and the cleanup in WGS84, after the second buffer(0).
ValidateInWgs84(gdf, label, steps, g4) ==
    IF CountRows(g4, LAMBDA g : ~is_valid(g)) > 0
      THEN Raises(gdf, label, steps \o <<"is_valid">>, "ValueError",
                  "invalid geometries after WGS84 conversion",
                  CountRows(g4, LAMBDA g : ~is_valid(g)))
    ELSE IF CountRows(g4, LAMBDA g : ~is_simple(g)) > 0
      THEN Raises(gdf, label, steps \o <<"is_valid", "is_simple">>, "ValueError",
                  "self-intersecting geometries",
                  CountRows(g4, LAMBDA g : ~is_simple(g)))
    ELSE [ called |-> TRUE, raised |-> FALSE, error |-> NoError, label |-> label,
           steps |-> steps \o <<"is_valid", "is_simple", "drop">>,
           input |-> gdf, repaired |-> g4, result |-> DropNullAndEmpty(g4),
           initial_count |-> Len(gdf.rows),
           final_count |-> Len(DropNullAndEmpty(g4).rows) ]

\* A repair that converts to WGS84 first and cleans and checks only there.
ValidateInUtmConvertFirst(gdf, label, steps, g1) ==
    IF \E k \in 1..Len(g1.rows) : is_null(g1.rows[k].geometry)
      THEN Raises(gdf, label, steps \o <<"to_crs_wgs84", "buffer0">>,
                  "AttributeError", "NoneType has no buffer", 0)
    ELSE ValidateInWgs84(gdf, label, steps \o <<"to_crs_wgs84", "buffer0">>,
                         MapGeometry(to_crs(g1, WGS84_CRS), buffer0))

\* A repair that converts to WGS84 before it looks at the validity in UTM.
ValidateInUtmCheckLate(gdf, label, steps, g1) ==
    IF \E k \in 1..Len(g1.rows) : is_null(g1.rows[k].geometry)
      THEN Raises(gdf, label, steps \o <<"buffer0">>, "AttributeError",
                  "NoneType has no buffer", 0)
    ELSE LET g2 == MapGeometry(g1, buffer0)
         IN  IF CountRows(g2, LAMBDA g : ~is_valid(g)) > 0
               THEN Raises(gdf, label, steps \o <<"buffer0", "to_crs_wgs84", "is_valid">>,
                           "ValueError", "invalid geometries after cleanup",
                           CountRows(g2, LAMBDA g : ~is_valid(g)))
             ELSE ValidateInWgs84(gdf, label,
                     steps \o <<"buffer0", "is_valid", "to_crs_wgs84", "buffer0">>,
                     MapGeometry(to_crs(g2, WGS84_CRS), buffer0))


\* The cleanup and the check in UTM, then the conversion to WGS84.
ValidateInUtm(gdf, label, steps, g1) ==
    IF \E k \in 1..Len(g1.rows) : is_null(g1.rows[k].geometry)
      THEN Raises(gdf, label, steps \o <<"buffer0">>, "AttributeError",
                  "NoneType has no buffer", 0)
    ELSE LET g2 == MapGeometry(g1, buffer0)
         IN  IF CountRows(g2, LAMBDA g : ~is_valid(g)) > 0
               THEN Raises(gdf, label, steps \o <<"buffer0", "is_valid">>,
                           "ValueError", "invalid geometries after cleanup",
                           CountRows(g2, LAMBDA g : ~is_valid(g)))
             ELSE ValidateInWgs84(gdf, label,
                     steps \o <<"buffer0", "is_valid", "to_crs_wgs84", "buffer0">>,
                     MapGeometry(to_crs(g2, WGS84_CRS), buffer0))

validate_and_transform_geometries(gdf, dataset_name) ==
    IF gdf.crs = METRIC_CRS THEN ValidateInUtm(gdf, dataset_name, << >>, gdf)
    ELSE IF gdf.crs = "none"
      THEN Raises(gdf, dataset_name, <<"to_crs_utm">>, "ValueError",
                  "cannot transform naive geometries", 0)
    ELSE ValidateInUtm(gdf, dataset_name, <<"to_crs_utm">>, to_crs(gdf, METRIC_CRS))

---------------------------------------------------------------------------
(* run() and _create_dissolved_df                                          *)

Dataset == IF pipeline = "wetlands" THEN "wetlands" ELSE "water_projects"

\* The dissolved collection saved under the name of the original.
DissolvedDatasetSameName == IF pipeline = "wetlands" THEN "wetlands" ELSE "water_projects"

DissolvedDataset ==
    IF pipeline = "wetlands" THEN "wetlands_dissolved" ELSE "water_projects_dissolved"

\* The name handed to validate_and_transform_geometries:
\* f"silver.{dataset}_dissolved" in wetlands, f"{dataset}_dissolved" in
\* water projects.
\* The label of the water projects, without the layer prefix.
ValidationLabelBare ==
    IF pipeline = "wetlands" THEN "wetlands_dissolved" ELSE "water_projects_dissolved"

ValidationLabel ==
    IF pipeline = "wetlands" THEN "silver.wetlands_dissolved"
                             ELSE "water_projects_dissolved"

\* max_concurrent of the bronze configurations.
max_concurrent == 3

\* Semaphore(max_concurrent) as the configuration class creates it.
FreeSemaphore == [ value |-> max_concurrent, waiters |-> << >> ]

\* No bronze job is under way.
NoFetch == [ pc |-> "idle" ]

NoBronze ==
    /\ fetch = NoFetch
    /\ chunks = << >>
    /\ request_semaphore = FreeSemaphore

\* No function was called on its own.
NoProbe == [ kind |-> "none" ]

Init ==
    /\ pipeline \in { "wetlands", "water_projects" }
    /\ pc = "start"
    /\ geo_df = None
    /\ pos = 0
    /\ merged = {}
    /\ merged_polygons = << >>
    /\ dissolved_gdf = None
    /\ validation = NoValidation
    /\ dissolved_df = None
    /\ error = NoError
    /\ errlog = {}
    /\ saved = << >>
    /\ save_calls = 0
    /\ run_no = 1
    /\ first_groups = << >>
    /\ probe = NoProbe
    /\ report = NoProbe
    /\ NoBronze

\* A handler that logs and returns the frame it has.
dissolve_except_swallow(e, gdf) ==
    [ pc |-> "dissolved", error |-> NoError, returned |-> gdf,
      log |-> { "Error during dissolve operation" } ]

\* A handler that logs and returns None to its caller.
dissolve_except_return_none(e, gdf) ==
    [ pc |-> "dissolved", error |-> NoError, returned |-> None,
      log |-> { "Error during dissolve operation" } ]

\* `except Exception as e: self.log.error(...); raise e` of
\* _create_dissolved_df: where run() goes on, the exception it sees, and the
\* value it receives.
dissolve_except(e, gdf) ==
    [ pc |-> "failed", error |-> e, returned |-> None,
      log |-> { "Error during dissolve operation" } ]

\* A run() that saves in a `finally`.
ReachesSaveAlways(at) == at \in { "dissolved", "failed" }

\* run() reaches its _save_data calls only when _create_dissolved_df returned.
ReachesSave(at) == at = "dissolved"

\* _read_bronze_data returned None: run() logs and returns.
ReadBronzeNone ==
    /\ pc = "start"
    /\ pc' = "returned"
    /\ errlog' = errlog \cup { "Failed to read raw data" }
    /\ UNCHANGED << bronze, pipeline, geo_df, pos, merged, merged_polygons, dissolved_gdf,
                    validation, dissolved_df, error, saved, save_calls,
                    run_no, first_groups, probe, report >>

ReadBronze ==
    /\ pc = "start"
    /\ pc' = "read"
    /\ UNCHANGED << bronze, pipeline, geo_df, pos, merged, merged_polygons, dissolved_gdf,
                    validation, dissolved_df, error, errlog, saved, save_calls,
                    run_no, first_groups, probe, report >>

\* _process_xml_data / _process_data returned None: no raw rows, or (water
\* projects) no feature extracted.
ProcessNone ==
    /\ pc = "read"
    /\ pc' = "returned"
    /\ errlog' = errlog \cup { "Failed to process raw data" }
    /\ UNCHANGED << bronze, pipeline, geo_df, pos, merged, merged_polygons, dissolved_gdf,
                    validation, dissolved_df, error, saved, save_calls,
                    run_no, first_groups, probe, report >>

\* The parser delivers a collection in EPSG:25832.  The wetlands parser
\* builds a frame even when no feature was parsed; the water-projects parser
\* returns None then.
ProcessData ==
    /\ pc = "read"
    /\ \E fs \in FeatureLists(IF pipeline = "wetlands" THEN 0 ELSE 1) :
          geo_df' = GeoDataFrame(fs, METRIC_CRS, InputColumns)
    /\ pc' = "processed"
    /\ UNCHANGED << bronze, pipeline, pos, merged, merged_polygons, dissolved_gdf,
                    validation, dissolved_df, error, errlog, saved, save_calls,
                    run_no, first_groups, probe, report >>

\* Wetlands: log_geometry_statistics(df) raises.
StatsInputRaises ==
    /\ pc = "processed" /\ pipeline = "wetlands"
    /\ StatisticsError(geo_df) # NoError
    /\ LET h == dissolve_except(StatisticsError(geo_df), None)
       IN  /\ pc' = h.pc
           /\ error' = h.error
           /\ dissolved_df' = h.returned
           /\ errlog' = errlog \cup h.log
    /\ UNCHANGED << bronze, pipeline, geo_df, pos, merged, merged_polygons, dissolved_gdf,
                    validation, saved, save_calls, run_no, first_groups, probe, report >>

\* Wetlands: the statistics of the input, then `df["idx"] = range(len(df))`
\* on the caller's frame and the spatial index.
StatsInput ==
    /\ pc = "processed" /\ pipeline = "wetlands"
    /\ StatisticsError(geo_df) = NoError
    /\ geo_df' = [ geo_df EXCEPT !.columns = @ \cup { "idx" } ]
    /\ pos' = 0
    /\ merged' = {}
    /\ merged_polygons' = << >>
    /\ pc' = "merging"
    /\ UNCHANGED << bronze, pipeline, dissolved_gdf, validation, dissolved_df, error,
                    errlog, saved, save_calls, run_no, first_groups, probe, report >>

\* One turn of `for idx, row in df.iterrows()` on a row already merged.
SkipMerged ==
    /\ pc = "merging"
    /\ pos < Len(geo_df.rows)
    /\ (pos + 1) \in merged
    /\ pos' = pos + 1
    /\ UNCHANGED << bronze, pipeline, pc, geo_df, merged, merged_polygons, dissolved_gdf,
                    validation, dissolved_df, error, errlog, saved, save_calls,
                    run_no, first_groups, probe, report >>

\* One turn of the loop on a row not yet merged: the row seeds a group, the
\* candidates of the spatial index are tested in the order it returns them.
VisitFeature ==
    /\ pc = "merging"
    /\ pos < Len(geo_df.rows)
    /\ (pos + 1) \notin merged
    /\ LET idx == pos + 1
           cands == sindex_intersection(geo_df, bounds(geo_df.rows[idx].geometry))
       IN  \E matches \in OrdersOf(cands) :
              LET got == CollectGroup(geo_df, idx, matches, merged)
              IN  /\ merged' = got.merged
                  /\ merged_polygons' =
                       Append(merged_polygons,
                              [ seed |-> idx, members |-> got.group,
                                geometry |-> MergeGroup(geo_df, got.group) ])
    /\ pos' = pos + 1
    /\ UNCHANGED << bronze, pipeline, pc, geo_df, dissolved_gdf, validation, dissolved_df,
                    error, errlog, saved, save_calls, run_no, first_groups, probe, report >>

\* One turn of the loop in which shares_edge throws on a candidate: nothing
\* in the loop catches it, so the handler of _create_dissolved_df takes over
\* and the groups formed so far are lost with the call.
VisitFeatureRaises ==
    /\ pc = "merging"
    /\ pos < Len(geo_df.rows)
    /\ (pos + 1) \notin merged
    /\ LET idx == pos + 1
           cands == sindex_intersection(geo_df, bounds(geo_df.rows[idx].geometry))
       IN  \E matches \in OrdersOf(cands) : \E k \in 1..Len(matches) :
              LET sofar == CollectGroup(geo_df, idx, SubSeq(matches, 1, k - 1), merged)
              IN  /\ matches[k] # idx
                  /\ matches[k] \notin sofar.merged
                  /\ intersection_can_raise(geo_df.rows[idx].geometry,
                                            geo_df.rows[matches[k]].geometry)
    /\ LET h == dissolve_except(TopologyError, None)
       IN  /\ pc' = h.pc
           /\ error' = h.error
           /\ dissolved_df' = h.returned
           /\ errlog' = errlog \cup h.log
    /\ UNCHANGED << bronze, pipeline, geo_df, pos, merged, merged_polygons, dissolved_gdf,
                    validation, saved, save_calls, run_no, first_groups,
                    probe, report >>

\* After the loop: the new frame and its wetland_id column.
BuildDissolved ==
    /\ pc = "merging"
    /\ pos = Len(geo_df.rows)
    /\ dissolved_gdf' = BuildDissolvedFrame(merged_polygons, geo_df.crs)
    /\ pc' = "built"
    /\ UNCHANGED << bronze, pipeline, geo_df, pos, merged, merged_polygons, validation,
                    dissolved_df, error, errlog, saved, save_calls,
                    run_no, first_groups, probe, report >>

\* log_geometry_statistics(dissolved_gdf)
StatsOutput ==
    /\ pc = "built"
    /\ StatisticsError(dissolved_gdf) = NoError
    /\ pc' = "validating"
    /\ UNCHANGED << bronze, pipeline, geo_df, pos, merged, merged_polygons, dissolved_gdf,
                    validation, dissolved_df, error, errlog, saved, save_calls,
                    run_no, first_groups, probe, report >>

\* Water projects: the parts of unary_union(df.geometry.values), each with
\* the health its features give it, in a fixed order.
RECURSIVE PartsInOrder(_, _)
PartsInOrder(parts, gs) ==
    IF parts = {} THEN << >>
    ELSE LET first == CHOOSE p \in parts :
                        \A q \in parts :
                           LET a == Min({ c[1] : c \in p })
                               b == Min({ c[1] : c \in q })
                           IN  a < b \/ (a = b /\ Min({ c[2] : c \in p })
                                                   <= Min({ c[2] : c \in q }))
         IN  << [ unary_union(SelectSeq(gs, LAMBDA g : g.cells \cap first # {}))
                    EXCEPT !.cells = first ] >>
             \o PartsInOrder(parts \ {first}, gs)

\* Water projects: reprojection to EPSG:4326, one union of everything, and
\* buffer(0) on each part (or on the single geometry).
WaterDissolve ==
    /\ pc = "processed" /\ pipeline = "water_projects"
    /\ LET df == to_crs(geo_df, WGS84_CRS)
           gs == Geometries(df)
           dissolved == unary_union(gs)
           parts == Components(dissolved.cells)
           cleaned == IF Cardinality(parts) > 1
                        THEN PartsInOrder(parts, gs)
                        ELSE << dissolved >>
       IN  dissolved_gdf' =
             MapGeometry(GeoDataFrame(cleaned, WGS84_CRS, { "geometry" }), buffer0)
    /\ pc' = "validating"
    /\ UNCHANGED << bronze, pipeline, geo_df, pos, merged, merged_polygons, validation,
                    dissolved_df, error, errlog, saved, save_calls,
                    run_no, first_groups, probe, report >>

\* validate_and_transform_geometries returns: so does _create_dissolved_df.
ValidateReturns ==
    /\ pc = "validating"
    /\ LET v == validate_and_transform_geometries(dissolved_gdf, ValidationLabel)
       IN  /\ ~v.raised
           /\ validation' = v
           /\ dissolved_gdf' = v.result
           /\ dissolved_df' = v.result
    /\ pc' = "dissolved"
    /\ UNCHANGED << bronze, pipeline, geo_df, pos, merged, merged_polygons, error, errlog,
                    saved, save_calls, run_no, first_groups, probe, report >>

\* validate_and_transform_geometries raises: it logs and re-raises, and the
\* handler of _create_dissolved_df takes over.
ValidateRaises ==
    /\ pc = "validating"
    /\ LET v == validate_and_transform_geometries(dissolved_gdf, ValidationLabel)
           h == dissolve_except(v.error, dissolved_gdf)
       IN  /\ v.raised
           /\ validation' = v
           /\ pc' = h.pc
           /\ error' = h.error
           /\ dissolved_df' = h.returned
           /\ errlog' = errlog \cup { "Error in geometry validation" } \cup h.log
    /\ UNCHANGED << bronze, pipeline, geo_df, pos, merged, merged_polygons, dissolved_gdf,
                    saved, save_calls, run_no, first_groups, probe, report >>

\* _save_data(df, dataset, bucket): a frame that is None or empty is not
\* written.
save_data(df, dataset) ==
    IF df.is_none \/ IsEmptyFrame(df) THEN saved
    ELSE Append(saved, [ dataset |-> dataset, data |-> df ])

SaveOriginal ==
    /\ ReachesSave(pc)
    /\ saved' = save_data(geo_df, Dataset)
    /\ save_calls' = save_calls + 1
    /\ pc' = "saved_original"
    /\ UNCHANGED << bronze, pipeline, geo_df, pos, merged, merged_polygons, dissolved_gdf,
                    validation, dissolved_df, error, errlog, run_no, first_groups, probe, report >>

SaveDissolved ==
    /\ pc = "saved_original"
    /\ saved' = save_data(dissolved_df, DissolvedDataset)
    /\ save_calls' = save_calls + 1
    /\ pc' = "done"
    /\ UNCHANGED << bronze, pipeline, geo_df, pos, merged, merged_polygons, dissolved_gdf,
                    validation, dissolved_df, error, errlog, run_no, first_groups, probe, report >>

Next ==
    \/ ReadBronzeNone
    \/ ReadBronze
    \/ ProcessNone
    \/ ProcessData
    \/ StatsInputRaises
    \/ StatsInput
    \/ SkipMerged
    \/ VisitFeature
    \/ VisitFeatureRaises
    \/ BuildDissolved
    \/ StatsOutput
    \/ WaterDissolve
    \/ ValidateReturns
    \/ ValidateRaises
    \/ SaveOriginal
    \/ SaveDissolved

Spec == Init /\ [][Next]_vars

---------------------------------------------------------------------------
(* A second call of _create_dissolved_df on the same frame                 *)

\* The groups and identifiers the call that just ended handed to the repair.
GroupsOfCall ==
    [ k \in 1..Len(merged_polygons) |->
        [ members |-> Range(merged_polygons[k].members),
          wetland_id |-> validation.input.rows[k].wetland_id ] ]

\* The caller calls _create_dissolved_df(df, dataset) once more with the frame
\* of the first call, after that call returned or raised in the repair.
CallAgain ==
    /\ pipeline = "wetlands"
    /\ run_no = 1
    /\ pc \in { "dissolved", "failed" }
    /\ validation.called
    /\ first_groups' = GroupsOfCall
    /\ run_no' = 2
    /\ pc' = "processed"
    /\ pos' = 0
    /\ merged' = {}
    /\ merged_polygons' = << >>
    /\ dissolved_gdf' = None
    /\ dissolved_df' = None
    /\ validation' = NoValidation
    /\ error' = NoError
    /\ UNCHANGED << bronze, pipeline, geo_df, errlog, saved, save_calls, probe, report >>

NextTwice == Next \/ CallAgain

SpecTwice == Init /\ [][NextTwice]_vars

---------------------------------------------------------------------------
(* validate_and_transform_geometries on any collection                     *)

EmptyGeom == Geom({}, {}, "empty")

RepairCatalogue ==
    { CellA, Bowtie, Stubborn, Collapsed, Fragile, Tangled, NullGeom, EmptyGeom }

InputCRS == { METRIC_CRS, WGS84_CRS, "EPSG:3857", "none" }

RepairInputs ==
    { GeoDataFrame([ k \in 1..Len(fs) |-> [ fs[k] EXCEPT !.frame = crs ] ],
                   crs, { "geometry" }) :
        fs \in UNION { [1..n -> RepairCatalogue] : n \in 0..MaxFeatures },
        crs \in InputCRS }

\* The state at the call of validate_and_transform_geometries, for any
\* collection a caller may hand to it.
InitRepair ==
    /\ pipeline \in { "wetlands", "water_projects" }
    /\ pc = "validating"
    /\ geo_df = None
    /\ pos = 0
    /\ merged = {}
    /\ merged_polygons = << >>
    /\ dissolved_gdf \in RepairInputs
    /\ validation = NoValidation
    /\ dissolved_df = None
    /\ error = NoError
    /\ errlog = {}
    /\ saved = << >>
    /\ save_calls = 0
    /\ run_no = 1
    /\ first_groups = << >>
    /\ probe = NoProbe
    /\ report = NoProbe
    /\ NoBronze

NextRepair == ValidateReturns \/ ValidateRaises

SpecRepair == InitRepair /\ [][NextRepair]_vars

---------------------------------------------------------------------------
(* validate_and_transform_geometries on its own output                     *)

\* The caller hands the collection the first call returned to the function
\* once more.
RepairAgain ==
    /\ pc = "dissolved"
    /\ probe = NoProbe
    /\ validation.called /\ ~validation.raised
    /\ probe' = [ kind |-> "repair", gdf |-> validation.result ]
    /\ report' = [ kind |-> "repair",
                   outcome |-> validate_and_transform_geometries(validation.result,
                                                                 ValidationLabel) ]
    /\ UNCHANGED << bronze, pipeline, pc, geo_df, pos, merged, merged_polygons, dissolved_gdf,
                    validation, dissolved_df, error, errlog, saved, save_calls,
                    run_no, first_groups >>

NextRepairTwice == NextRepair \/ RepairAgain

SpecRepairTwice == InitRepair /\ [][NextRepairTwice]_vars


---------------------------------------------------------------------------
(* shares_edge called on a pair of geometries, in both orders              *)

\* No run() is under way: a function is called on its own.
NoRun ==
    /\ pipeline = "wetlands"
    /\ pc = "idle"
    /\ geo_df = None
    /\ pos = 0
    /\ merged = {}
    /\ merged_polygons = << >>
    /\ dissolved_gdf = None
    /\ validation = NoValidation
    /\ dissolved_df = None
    /\ error = NoError
    /\ errlog = {}
    /\ saved = << >>
    /\ save_calls = 0
    /\ run_no = 1
    /\ first_groups = << >>

\* One call of shares_edge: it returns a boolean, or the intersection throws.
SharesEdgeCall(geom1, geom2, throws) ==
    [ raised |-> throws, value |-> ~throws /\ shares_edge(geom1, geom2) ]

InitSharesEdge ==
    /\ NoRun
    /\ NoBronze
    /\ probe \in { [ kind |-> "shares_edge", geom1 |-> a, geom2 |-> b ] :
                     a \in Catalogue, b \in Catalogue }
    /\ report = NoProbe

\* shares_edge(geom1, geom2) and shares_edge(geom2, geom1).
CallSharesEdge ==
    /\ probe.kind = "shares_edge"
    /\ report = NoProbe
    /\ \E t1, t2 \in BOOLEAN :
          /\ t1 => intersection_can_raise(probe.geom1, probe.geom2)
          /\ t2 => intersection_can_raise(probe.geom2, probe.geom1)
          /\ report' = [ kind |-> "shares_edge",
                         forward |-> SharesEdgeCall(probe.geom1, probe.geom2, t1),
                         backward |-> SharesEdgeCall(probe.geom2, probe.geom1, t2) ]
    /\ UNCHANGED << bronze, pipeline, pc, geo_df, pos, merged, merged_polygons, dissolved_gdf,
                    validation, dissolved_df, error, errlog, saved, save_calls,
                    run_no, first_groups, probe >>

NextSharesEdge == CallSharesEdge

SpecSharesEdge == InitSharesEdge /\ [][NextSharesEdge]_vars


---------------------------------------------------------------------------
(* WetlandsSilver.analyze_geometry                                         *)

\* Coordinates of an exterior ring are integers in thousandths of a unit.
CoordScale == 1000

\* `round(coord / 10) * 10`: the grid of 10 units.
GridSize == 10

\* `< 0.01`, in thousandths of a unit.
AlignTolerance == 10

Abs(a) == IF a < 0 THEN 0 - a ELSE a

\* int(n / d): the quotient cut off instead of rounded.
Truncate(n, d) == n \div d

\* Python's round(n / d): to the nearest integer, a tie to the even one.
RoundHalfEven(n, d) ==
    LET q == n \div d
        r == n % d
    IN  IF 2 * r < d THEN q
        ELSE IF 2 * r > d THEN q + 1
        ELSE IF q % 2 = 0 THEN q ELSE q + 1

\* `abs(round(coord / 10) * 10 - coord)`
GridOffset(coord) ==
    Abs(RoundHalfEven(coord, GridSize * CoordScale) * GridSize * CoordScale - coord)

\* The coordinates of the ring whose offset is the tolerance itself: there
\* the comparison of the two floating-point numbers can come out either way.
BoundaryCoords(vertices) ==
    { c \in { vertices[k][a] : k \in 1..Len(vertices), a \in 1..2 } :
        GridOffset(c) = AlignTolerance }

\* analyze_geometry(geom) for a polygon with the exterior ring `vertices`;
\* `passing` are the boundary coordinates for which `< 0.01` came out true.
analyze_geometry(vertices, passing) ==
    LET xs == { vertices[k][1] : k \in 1..Len(vertices) }
        ys == { vertices[k][2] : k \in 1..Len(vertices) }
        width == Max(xs) - Min(xs)
        height == Max(ys) - Min(ys)
    IN  [ width |-> width,
          height |-> height,
          area |-> width * height,
          grid_aligned |->
             \A k \in 1..Len(vertices) : \A a \in 1..2 :
                \/ GridOffset(vertices[k][a]) < AlignTolerance
                \/ vertices[k][a] \in passing,
          vertices |-> Len(vertices) ]

\* Coordinates on the grid, near it on both sides of the tolerance, and off it.
ProbeCoords ==
    { 0, 9, 10, 11, 500, 5000, 9990, 9995, 10000, 10010, 10500, 20000 }

\* How far the third corner of a ring is pushed out of the rectangle.
ProbeShifts == { 0, 9, 11, 500 }

\* Closed rings: a rectangle, or a rectangle with one corner moved.
ProbeRings ==
    { << <<x1, y1>>, <<x2, y1>>, <<x2 + d, y2>>, <<x1, y2>>, <<x1, y1>> >> :
        x1 \in ProbeCoords, x2 \in { c \in ProbeCoords : c >= 10000 },
        y1 \in { 0, 9, 10, 500 }, y2 \in { 5000, 9995, 10000, 10500 },
        d \in ProbeShifts }

InitAnalyze ==
    /\ NoRun
    /\ NoBronze
    /\ probe \in { [ kind |-> "analyze", vertices |-> r ] :
                     r \in { q \in ProbeRings : q[1][1] < q[2][1] } }
    /\ report = NoProbe

CallAnalyze ==
    /\ probe.kind = "analyze"
    /\ report = NoProbe
    /\ \E passing \in SUBSET BoundaryCoords(probe.vertices) :
          report' = [ kind |-> "analyze",
                      result |-> analyze_geometry(probe.vertices, passing) ]
    /\ UNCHANGED << bronze, pipeline, pc, geo_df, pos, merged, merged_polygons, dissolved_gdf,
                    validation, dissolved_df, error, errlog, saved, save_calls,
                    run_no, first_groups, probe >>

NextAnalyze == CallAnalyze

SpecAnalyze == InitAnalyze /\ [][NextAnalyze]_vars


---------------------------------------------------------------------------
(* Properties                                                              *)

\* Largest edge-length threshold tried where a property holds for any.
MaxThreshold == 12

NumRows == Len(geo_df.rows)

GeometryAt(i) == geo_df.rows[i].geometry

MembersOf(k) == Range(merged_polygons[k].members)

SeedOf(k) == merged_polygons[k].seed

EarlierMembers(k) == UNION { MembersOf(h) : h \in 1..(k - 1) }

\* The rows that were not merged yet when group k was started, its seed aside.
CandidatesOf(k) == (1..NumRows) \ (EarlierMembers(k) \cup { SeedOf(k) })

\* The merge loop of the wetlands dissolve has visited every row.
LoopFinished ==
    /\ pipeline = "wetlands"
    /\ "idx" \in geo_df.columns
    /\ pc \in { "merging", "built", "validating", "dissolved",
                "saved_original", "done", "failed" }
    /\ pos = NumRows

\* C1: partition.  No row is twice in a group, no row is in two groups, no
\* row seeds a group after it was merged into an earlier one, and when the
\* loop has finished every row is in a group: each row is in exactly one.
C1_Partition ==
    /\ \A k \in 1..Len(merged_polygons) :
          /\ Injective(merged_polygons[k].members)
          /\ SeedOf(k) \notin EarlierMembers(k)
          /\ MembersOf(k) \cap EarlierMembers(k) = {}
          /\ MembersOf(k) \subseteq merged
    /\ LoopFinished =>
          /\ merged = 1..NumRows
          /\ \A i \in 1..NumRows :
                Cardinality({ k \in 1..Len(merged_polygons) : i \in MembersOf(k) }) = 1

\* C1 witness: three rows ended in two groups, so one row was merged into
\* another's group and skipped as a seed.
C1_Witness ==
    /\ LoopFinished
    /\ NumRows = 3
    /\ Len(merged_polygons) = 2
    /\ pc = "built"

\* C2: edge-sharing criterion.  A row j other than the seed and not merged
\* before is in the seed's group exactly if the intersection of the two
\* geometries is one LineString of length >= 10: a length of exactly 10
\* merges, a length of 5 does not, and an intersection of any other type
\* (empty, a point, several line parts, an area) never does.
C2_EdgeSharingCriterion ==
    \A k \in 1..Len(merged_polygons) :
       /\ MembersOf(k) \ { SeedOf(k) } \subseteq CandidatesOf(k)
       /\ \A j \in CandidatesOf(k) :
             LET inter == intersection(GeometryAt(SeedOf(k)), GeometryAt(j))
             IN  /\ j \in MembersOf(k)
                      <=> (inter.geom_type = "LineString" /\ inter.length >= 10)
                 /\ (inter.geom_type = "LineString" /\ inter.length = 10)
                      => j \in MembersOf(k)
                 /\ inter.length = 5 => j \notin MembersOf(k)
                 /\ inter.geom_type \in { "EmptyGeometry", "Point", "MultiPoint",
                                          "MultiLineString", "GeometryCollection",
                                          "Polygon" }
                      => j \notin MembersOf(k)

\* C2 witness: the seed A took B over an edge of exactly 10 units and left D,
\* whose shared edge is a LineString of 5 units.
C2_Witness ==
    /\ LoopFinished
    /\ NumRows = 3
    /\ \E b, d \in 2..3 :
          /\ intersection(GeometryAt(1), GeometryAt(b))
               = [ geom_type |-> "LineString", length |-> 10 ]
          /\ intersection(GeometryAt(1), GeometryAt(d))
               = [ geom_type |-> "LineString", length |-> 5 ]
          /\ MembersOf(1) = { 1, b }
          /\ d \in MembersOf(2)

\* C3: single pass, seed only.  A group is its seed, first, and exactly the
\* rows not merged before that share an edge with the seed itself; a row
\* adjacent only to another member is not taken.  For a chain A-B-C in this
\* order the groups are {A, B} and {C}.
C3_SeedOnlySinglePass ==
    /\ \A k \in 1..Len(merged_polygons) :
          /\ merged_polygons[k].members[1] = SeedOf(k)
          /\ MembersOf(k) =
               { SeedOf(k) } \cup
               { j \in CandidatesOf(k) :
                   shares_edge(GeometryAt(SeedOf(k)), GeometryAt(j)) }
    /\ ( /\ LoopFinished
         /\ NumRows = 3
         /\ shares_edge(GeometryAt(1), GeometryAt(2))
         /\ shares_edge(GeometryAt(2), GeometryAt(3))
         /\ ~shares_edge(GeometryAt(1), GeometryAt(3)) )
       => /\ Len(merged_polygons) = 2
          /\ MembersOf(1) = { 1, 2 }
          /\ MembersOf(2) = { 3 }

\* C3 witness: the chain A-B-C was merged into {A, B} and {C}.
C3_Witness ==
    /\ LoopFinished
    /\ Geometries(geo_df) = << CellA, CellB, CellC >>
    /\ Len(merged_polygons) = 2
    /\ MembersOf(1) = { 1, 2 }
    /\ MembersOf(2) = { 3 }

\* What the repair steps make of one geometry: to UTM, buffer(0), to WGS84,
\* buffer(0).
RepairedGeometry(g) ==
    buffer0(reproject(buffer0(reproject(g, METRIC_CRS)), WGS84_CRS))

RepairInput(k) == validation.input.rows[k].geometry

\* The repair steps leave the k-th geometry of the call invalid or not simple,
\* or the geometry is null.
StillBroken(k) ==
    \/ is_null(RepairInput(k))
    \/ ~is_valid(RepairedGeometry(RepairInput(k)))
    \/ ~is_simple(RepairedGeometry(RepairInput(k)))

\* C4 as stated: the call raises whenever, after the repair steps, a geometry
\* remains invalid, non-simple, null or empty; a zero-area shape that
\* buffer(0) turns into an empty geometry raises.
C4_HardFailureAsStated ==
    validation.called =>
       ( (\E k \in 1..Len(validation.input.rows) :
             StillBroken(k) \/ is_empty(RepairedGeometry(RepairInput(k))))
         => validation.raised )

\* C4: repair is a hard failure for what stays invalid, non-simple or null:
\* the call raises exactly when the collection has no CRS to convert from or
\* a geometry is null or remains invalid or non-simple after the repair steps.
\* A geometry the repair leaves empty (a zero-area shape after buffer(0)) does
\* not raise: it is removed, and the call returns the other rows in order.
C4_HardFailure ==
    validation.called =>
       /\ validation.raised
            <=> \/ validation.input.crs = "none"
                \/ \E k \in 1..Len(validation.input.rows) : StillBroken(k)
       /\ validation.raised => validation.error # NoError /\ validation.result = None
       /\ ~validation.raised =>
            Geometries(validation.result) =
              SelectSeq([ k \in 1..Len(validation.input.rows) |->
                            RepairedGeometry(RepairInput(k)) ],
                        LAMBDA g : ~is_empty(g))

\* C4 witness: a zero-area shape was in the collection and the call returned
\* without it.
C4_Witness ==
    /\ validation.called
    /\ ~validation.raised
    /\ \E k \in 1..Len(validation.input.rows) :
          RepairInput(k).cells = {} /\ RepairInput(k).spine # {}
    /\ validation.final_count < validation.initial_count
    /\ validation.final_count > 0

\* C5: success postcondition.  When the call returns, whatever the CRS of the
\* input, the returned collection is in EPSG:4326 and each of its geometries
\* is valid, simple, not null and not empty.
C5_SuccessPostcondition ==
    (validation.called /\ ~validation.raised) =>
       /\ ~validation.result.is_none
       /\ validation.result.crs = WGS84_CRS
       /\ dissolved_df = validation.result
       /\ \A k \in 1..Len(validation.result.rows) :
             LET g == validation.result.rows[k].geometry
             IN  /\ is_valid(g) /\ is_simple(g)
                 /\ ~is_null(g) /\ ~is_empty(g)
                 /\ g.frame = WGS84_CRS

\* C5 witness: a collection in a third CRS came back in EPSG:4326 with a row
\* repaired and a row removed.
C5_Witness ==
    /\ validation.called
    /\ ~validation.raised
    /\ validation.input.crs = "EPSG:3857"
    /\ \E k \in 1..Len(validation.input.rows) : ~is_valid(RepairInput(k))
    /\ validation.final_count >= 1
    /\ validation.final_count < validation.initial_count

\* C6: the dissolve propagates a repair failure.  When
\* validate_and_transform_geometries raised, _create_dissolved_df has logged
\* the error and its caller holds that very exception and no collection.
C6_DissolvePropagates ==
    validation.raised =>
       /\ pc = "failed"
       /\ error = validation.error
       /\ error # NoError
       /\ dissolved_df = None
       /\ "Error during dissolve operation" \in errlog

\* C6 witness: the repair of the wetlands dissolve raised a ValueError.
C6_Witness ==
    /\ pipeline = "wetlands"
    /\ validation.raised
    /\ validation.error.type = "ValueError"
    /\ pc = "failed"
    /\ Len(merged_polygons) >= 2

\* C7: no persistence after a failure.  In a run of either pipeline in which
\* _create_dissolved_df raised, _save_data was not called and nothing is
\* written.
C7_NoSaveAfterFailure ==
    (error # NoError \/ pc = "failed" \/ validation.raised) =>
       /\ save_calls = 0
       /\ saved = << >>
       /\ pc = "failed"

\* C7 witness: the water-projects dissolve raised in the repair with a
\* collection that had features to save.
C7_Witness ==
    /\ pipeline = "water_projects"
    /\ pc = "failed"
    /\ validation.raised
    /\ error.type = "ValueError"
    /\ Len(geo_df.rows) >= 2

\* C8: sequential identifiers.  When the identifiers are assigned, the frame
\* has one row per group in the order the loop emitted them, and the k-th
\* carries identifier k: the identifiers are exactly 1..n.  The groups are
\* emitted in the order of their seeds, and a seed is the lowest-positioned
\* member of its group.
C8_SequentialIdentifiers ==
    /\ (pipeline = "wetlands" /\ pc \in { "built", "validating" }) =>
          /\ Len(dissolved_gdf.rows) = Len(merged_polygons)
          /\ \A k \in 1..Len(dissolved_gdf.rows) :
                /\ dissolved_gdf.rows[k].wetland_id = k
                /\ dissolved_gdf.rows[k].geometry = merged_polygons[k].geometry
          /\ { dissolved_gdf.rows[k].wetland_id : k \in 1..Len(dissolved_gdf.rows) }
               = 1..Len(merged_polygons)
    /\ \A k \in 1..Len(merged_polygons) :
          /\ SeedOf(k) = Min(MembersOf(k))
          /\ \A h \in 1..(k - 1) : SeedOf(h) < SeedOf(k)

\* C8 witness: identifiers assigned to two groups, the second of two rows.
C8_Witness ==
    /\ pipeline = "wetlands"
    /\ pc = "built"
    /\ Len(dissolved_gdf.rows) = 2
    /\ dissolved_gdf.rows[2].wetland_id = 2
    /\ Cardinality(MembersOf(2)) = 2

\* C9: determinism.  A second call on the same rows in the same order forms
\* the same groups, group by group, and gives each the identifier it had.
C9_Determinism ==
    run_no = 2 =>
       /\ Len(merged_polygons) <= Len(first_groups)
       /\ \A k \in 1..Len(merged_polygons) :
             MembersOf(k) = first_groups[k].members
       /\ (pc \in { "built", "validating" }) =>
             /\ Len(dissolved_gdf.rows) = Len(first_groups)
             /\ \A k \in 1..Len(first_groups) :
                   dissolved_gdf.rows[k].wetland_id = first_groups[k].wetland_id

\* C9 witness: the second call built its frame, with a group of three rows
\* whose two neighbours the index may return in either order.
C9_Witness ==
    /\ run_no = 2
    /\ pc = "validating"
    /\ \E k \in 1..Len(merged_polygons) : Cardinality(MembersOf(k)) = 3

\* C10: corner touch.  A row that meets the seed of a group in a single point
\* and was free to join is not in the seed's group, and the two geometries do
\* not share an edge whatever the length threshold.
C10_CornerTouchNeverMerges ==
    \A k \in 1..Len(merged_polygons) :
       \A j \in CandidatesOf(k) :
          intersection(GeometryAt(SeedOf(k)), GeometryAt(j)).geom_type = "Point" =>
             /\ j \notin MembersOf(k)
             /\ \A t \in 0..MaxThreshold :
                   ~shares_edge_at(GeometryAt(SeedOf(k)), GeometryAt(j), t)

\* C10 witness: two squares that touch in a corner ended in two groups.
C10_Witness ==
    /\ LoopFinished
    /\ NumRows = 2
    /\ intersection(GeometryAt(1), GeometryAt(2))
         = [ geom_type |-> "Point", length |-> 0 ]
    /\ Len(merged_polygons) = 2
    /\ MembersOf(1) = { 1 }
    /\ MembersOf(2) = { 2 }

\* C11: single-member groups are untouched.  A group with exactly one member
\* is emitted with the geometry of that row as it is in the input: the same
\* shape and linework, the same state, the same coordinates in the same CRS.
C11_SingleMemberUntouched ==
    \A k \in 1..Len(merged_polygons) :
       Cardinality(MembersOf(k)) = 1 =>
          /\ merged_polygons[k].geometry = GeometryAt(SeedOf(k))
          /\ merged_polygons[k].geometry.drift = 0
          /\ (pipeline = "wetlands" /\ pc \in { "built", "validating" }) =>
                dissolved_gdf.rows[k].geometry = GeometryAt(SeedOf(k))

\* C11 witness: a polygon without area, alone in its group, beside a group of
\* two that was unioned.
C11_Witness ==
    /\ pipeline = "wetlands"
    /\ pc = "built"
    /\ Len(merged_polygons) = 2
    /\ Cardinality(MembersOf(1)) = 2
    /\ MembersOf(2) = { 3 }
    /\ merged_polygons[2].geometry = Collapsed
    /\ dissolved_gdf.rows[2].geometry = GeometryAt(3)

\* The collection and every geometry in it are in the metric CRS and were
\* never reprojected.
InMetricCrs(gdf) ==
    /\ gdf.crs = METRIC_CRS
    /\ \A k \in 1..Len(gdf.rows) :
          gdf.rows[k].geometry.frame = METRIC_CRS /\ gdf.rows[k].geometry.drift = 0

\* In the repair, the conversion to WGS84 comes after a validity check.
ConvertsAfterValidityCheck ==
    \A j \in 1..Len(validation.steps) :
       validation.steps[j] = "to_crs_wgs84" =>
          \E i \in 1..(j - 1) : validation.steps[i] = "is_valid"

\* C12 as stated: in every silver dissolve the collection handed to the repair
\* is still in EPSG:25832, never reprojected, and the repair converts to
\* EPSG:4326 only after its validity check.
C12_CrsDisciplineAsStated ==
    /\ pc = "validating" => InMetricCrs(dissolved_gdf)
    /\ validation.called => InMetricCrs(validation.input)
    /\ ConvertsAfterValidityCheck

\* C12: CRS discipline.  In the wetlands dissolve the adjacency tests and the
\* unions run in EPSG:25832 and the collection reaches the repair without any
\* reprojection; the repair converts to EPSG:4326 only after the validity
\* check in EPSG:25832.  The water-projects dissolve reprojects to EPSG:4326
\* before its union and buffer(0), so the repair starts by converting back
\* to EPSG:25832.
C12_CrsDiscipline ==
    /\ ConvertsAfterValidityCheck
    /\ pipeline = "wetlands" =>
          /\ pc \in { "merging", "built", "validating" } => InMetricCrs(geo_df)
          /\ \A k \in 1..Len(merged_polygons) :
                /\ merged_polygons[k].geometry.frame = METRIC_CRS
                /\ merged_polygons[k].geometry.drift = 0
          /\ pc \in { "built", "validating" } => InMetricCrs(dissolved_gdf)
          /\ validation.called =>
                /\ InMetricCrs(validation.input)
                /\ "to_crs_utm" \notin Range(validation.steps)
    /\ pipeline = "water_projects" =>
          /\ pc = "validating" =>
                /\ dissolved_gdf.crs = WGS84_CRS
                /\ \A k \in 1..Len(dissolved_gdf.rows) :
                      /\ dissolved_gdf.rows[k].geometry.frame = WGS84_CRS
                      /\ dissolved_gdf.rows[k].geometry.drift = 1
          /\ validation.called =>
                /\ validation.input.crs = WGS84_CRS
                /\ validation.steps[1] = "to_crs_utm"

\* C12 witness: a water-projects dissolve whose union of two parts was made
\* in EPSG:4326 and whose repair converted back to EPSG:25832 and returned.
C12_Witness ==
    /\ pipeline = "water_projects"
    /\ pc = "dissolved"
    /\ validation.input.crs = WGS84_CRS
    /\ validation.steps[1] = "to_crs_utm"
    /\ Len(validation.result.rows) = 2
    /\ validation.result.rows[1].geometry.drift = 3

\* The handler of _create_dissolved_df ran for a failure inside the merge loop.
FailedInLoop ==
    /\ pipeline = "wetlands"
    /\ "idx" \in geo_df.columns
    /\ ~validation.called
    /\ "Error during dissolve operation" \in errlog

\* C13 as stated: a throw of the adjacency check is caught for that feature,
\* so it never reaches the caller of the dissolve, and only a repair failure
\* ends the dissolve.
C13_PerFeatureSkippedAsStated ==
    /\ error.type # "GEOSException"
    /\ (pipeline = "wetlands" /\ "idx" \in geo_df.columns /\ pc = "failed")
          => validation.raised

\* C13: a throw of the adjacency check ends the dissolve.  The exception
\* leaves the loop, the handler of _create_dissolved_df logs it and raises it
\* to the caller; the rows not yet visited are not processed, no collection is
\* built, repaired or returned, and nothing is saved.
C13_LoopFailureAborts ==
    FailedInLoop =>
       /\ pc = "failed"
       /\ error = TopologyError
       /\ pos < NumRows
       /\ dissolved_gdf = None
       /\ dissolved_df = None
       /\ save_calls = 0

\* C13 witness: the check threw on the second of three rows, after a group
\* had been formed, and the run ended there.
C13_Witness ==
    /\ FailedInLoop
    /\ pc = "failed"
    /\ NumRows = 3
    /\ pos = 1
    /\ Len(merged_polygons) = 1
    /\ is_valid(GeometryAt(1))

\* C14 as stated: the statistics report never aborts the pipeline.  No run
\* ends with an exception that log_geometry_statistics raised, for the report
\* on the input or the report on the dissolved collection.
C14_StatisticsNeverAbort ==
    /\ error.type \notin { "KeyError", "AttributeError" }
    /\ (pipeline = "wetlands" /\ pc = "processed" /\ ~geo_df.is_none)
          => StatisticsError(geo_df) = NoError
    /\ (pipeline = "wetlands" /\ pc = "built")
          => StatisticsError(dissolved_gdf) = NoError

\* C14 failing run: the report on a collection without rows raised KeyError
\* and ended _create_dissolved_df before the merge started.
C14_Witness ==
    /\ pipeline = "wetlands"
    /\ pc = "failed"
    /\ error = [ type |-> "KeyError", text |-> "width", count |-> 0,
         dataset |-> "" ]
    /\ "idx" \notin geo_df.columns
    /\ "Error during dissolve operation" \in errlog

\* C15 as stated: empty input is "nothing to do".  When no raw data was read
\* or processed, or the parsed collection has no features, the silver
\* processing ends without an exception, with None or an empty result.
C15_EmptyInputNoError ==
    /\ pc = "returned" => (error = NoError /\ geo_df.is_none /\ dissolved_df.is_none)
    /\ (~geo_df.is_none /\ IsEmptyFrame(geo_df)) =>
          /\ error = NoError
          /\ pc # "failed"

\* C15 failing run: the parser returned a collection with no features and the
\* dissolve raised instead of returning an empty result.
C15_Witness ==
    /\ pipeline = "wetlands"
    /\ ~geo_df.is_none
    /\ IsEmptyFrame(geo_df)
    /\ pc = "failed"
    /\ error # NoError
    /\ dissolved_df = None
    /\ save_calls = 0

\* The number the message of the repair's ValueError gives: the geometries
\* invalid after the cleanup in UTM, else those invalid after the conversion
\* to WGS84, else those that are not simple.
ExpectedErrorCount ==
    LET n == Len(validation.input.rows)
        inUtm == [ k \in 1..n |-> buffer0(reproject(RepairInput(k), METRIC_CRS)) ]
        inWgs == [ k \in 1..n |-> RepairedGeometry(RepairInput(k)) ]
        badUtm == { k \in 1..n : ~is_valid(inUtm[k]) }
        badWgs == { k \in 1..n : ~is_valid(inWgs[k]) }
        notSimple == { k \in 1..n : ~is_simple(inWgs[k]) }
    IN  IF badUtm # {} THEN Cardinality(badUtm)
        ELSE IF badWgs # {} THEN Cardinality(badWgs)
        ELSE Cardinality(notSimple)

\* C16 as stated: the error of a failed validation carries the number of
\* invalid or non-simple geometries and the dataset label of the caller.
C16_FailureSignalAsStated ==
    (validation.raised /\ validation.error.count > 0) =>
       /\ validation.error.count = ExpectedErrorCount
       /\ validation.error.dataset = validation.label

\* C16: the failure signal.  A failed validation raises a plain ValueError
\* whose message gives the number of invalid (or non-simple) geometries of
\* the failing check and names no dataset; the dataset label of the caller is
\* on the logged lines only.  A null geometry and a collection without CRS
\* fail with an error that carries no number.
C16_FailureSignal ==
    validation.raised =>
       /\ validation.error.dataset = ""
       /\ validation.label = ValidationLabel
       /\ "Error in geometry validation" \in errlog
       /\ error = validation.error
       /\ IF validation.input.crs = "none"
            THEN validation.error.type = "ValueError" /\ validation.error.count = 0
          ELSE IF \E k \in 1..Len(validation.input.rows) : is_null(RepairInput(k))
            THEN validation.error.type = "AttributeError" /\ validation.error.count = 0
          ELSE /\ validation.error.type = "ValueError"
               /\ validation.error.count = ExpectedErrorCount
               /\ validation.error.count > 0

\* C16 witness: a collection of three with two geometries that stay invalid
\* failed with the number 2 in its error.
C16_Witness ==
    /\ validation.raised
    /\ validation.error.type = "ValueError"
    /\ Len(validation.input.rows) = 3
    /\ validation.error.count = 2
    /\ validation.label = "silver.wetlands_dissolved"
    /\ validation.error.dataset = ""

\* Nothing after _process_xml_data has run: no dissolve, no repair, no save.
NothingAfterProcessing ==
    /\ geo_df = None
    /\ merged_polygons = << >>
    /\ dissolved_gdf = None
    /\ dissolved_df = None
    /\ ~validation.called
    /\ save_calls = 0
    /\ saved = << >>

\* C17: stage order of WetlandsSilver.run.  When reading returned None,
\* processing, dissolve and save were not called; when processing returned
\* None, dissolve and save were not called; no save is called before the
\* dissolve returned, and then exactly two follow: the original collection
\* under the dataset name, then the dissolved one under "<dataset>_dissolved"
\* (a collection without rows is passed but not written).
C17_StageOrder ==
    pipeline = "wetlands" =>
       /\ "Failed to read raw data" \in errlog =>
             /\ pc = "returned"
             /\ "Failed to process raw data" \notin errlog
             /\ NothingAfterProcessing
       /\ "Failed to process raw data" \in errlog =>
             /\ pc = "returned"
             /\ NothingAfterProcessing
       /\ pc \notin { "saved_original", "done" } => (save_calls = 0 /\ saved = << >>)
       /\ pc = "dissolved" =>
             /\ validation.called /\ ~validation.raised
             /\ dissolved_df = validation.result
       /\ pc = "saved_original" =>
             /\ save_calls = 1
             /\ saved = << [ dataset |-> "wetlands", data |-> geo_df ] >>
       /\ pc = "done" =>
             /\ save_calls = 2
             /\ saved[1] = [ dataset |-> "wetlands", data |-> geo_df ]
             /\ IF IsEmptyFrame(dissolved_df)
                  THEN Len(saved) = 1
                  ELSE /\ Len(saved) = 2
                       /\ saved[2] = [ dataset |-> "wetlands_dissolved",
                                       data |-> dissolved_df ]

\* C17 witness: a run that read, processed, dissolved three rows into two
\* groups and saved both collections.
C17_Witness ==
    /\ pipeline = "wetlands"
    /\ pc = "done"
    /\ save_calls = 2
    /\ Len(saved) = 2
    /\ saved[1].dataset = "wetlands"
    /\ Len(saved[1].data.rows) = 3
    /\ saved[2].dataset = "wetlands_dissolved"
    /\ Len(saved[2].data.rows) = 2

\* Two geometries have the same shape and state in the same CRS; their
\* coordinates may have been computed by different numbers of reprojections.
SameShape(g, h) ==
    /\ g.cells = h.cells
    /\ g.spine = h.spine
    /\ g.health = h.health
    /\ g.frame = h.frame

C19_AdjacencySymmetry ==
    report.kind = "shares_edge" =>
       /\ (~report.forward.raised /\ ~report.backward.raised)
             => report.forward.value = report.backward.value
       /\ (is_valid(probe.geom1) /\ is_valid(probe.geom2))
             => (~report.forward.raised /\ ~report.backward.raised)

\* C19 witness: two different squares with a common side answered True in
\* both orders.
C19_Witness ==
    /\ report.kind = "shares_edge"
    /\ probe.geom1 = CellB
    /\ probe.geom2 = CornerE
    /\ report.forward = [ raised |-> FALSE, value |-> TRUE ]
    /\ report.backward = [ raised |-> FALSE, value |-> TRUE ]

\* Distance of a coordinate to the nearest multiple of 10 units.
DistanceToGrid(coord) ==
    LET r == coord % (10 * CoordScale)
    IN  IF r <= (10 * CoordScale) - r THEN r ELSE (10 * CoordScale) - r

ProbeCoordinates ==
    { probe.vertices[k][a] : k \in 1..Len(probe.vertices), a \in 1..2 }

\* C20: grid-alignment detection.  analyze_geometry reports grid_aligned when
\* every coordinate of every vertex of the exterior ring is less than 0.01
\* from a multiple of 10 and reports it false when some coordinate is more
\* than 0.01 away (at exactly 0.01 the floating-point comparison decides).  The
\* square with corners (0, 0) and (10, 10) is grid-aligned, the square with
\* corners (0, 0) and (10.5, 10.5) is not.
C20_GridAlignment ==
    report.kind = "analyze" =>
       /\ (\A c \in ProbeCoordinates : 100 * DistanceToGrid(c) < CoordScale)
             => report.result.grid_aligned
       /\ (\E c \in ProbeCoordinates : 100 * DistanceToGrid(c) > CoordScale)
             => ~report.result.grid_aligned
       /\ probe.vertices = << <<0, 0>>, <<10000, 0>>, <<10000, 10000>>,
                              <<0, 10000>>, <<0, 0>> >>
             => report.result.grid_aligned
       /\ probe.vertices = << <<0, 0>>, <<10500, 0>>, <<10500, 10500>>,
                              <<0, 10500>>, <<0, 0>> >>
             => ~report.result.grid_aligned
       /\ report.result.vertices = 5

\* C20 witness: a ring with coordinates 0.009 and 9.995, not on the grid but
\* within the tolerance of it, was reported grid-aligned.
C20_Witness ==
    /\ report.kind = "analyze"
    /\ 9 \in ProbeCoordinates
    /\ 9995 \in ProbeCoordinates
    /\ \A c \in ProbeCoordinates : 100 * DistanceToGrid(c) < CoordScale
    /\ report.result.grid_aligned

----------------------------------------------------------------------------
(* Bronze job of the water projects: run(), _fetch_raw_data,               *)
(* _fetch_wfs_data, _fetch_arcgis_data and _fetch_chunk                    *)

\* Largest numberMatched the server reports for the paginated layer.
MaxTotal == 8

\* config.batch_size, scaled down.
BatchSize == 2

\* stop_after_attempt(5) of the retry decorator.
MaxAttempts == 5

WfsLayer == "N2000_projekter:Hydrologi_E"
ArcgisLayer == "Klima_lavbund_demarkation___offentlige_projekter:0"

\* config.layers: no layer, or a paginated layer followed by the ArcGIS layer.
LayerConfigs == { << >>, << WfsLayer, ArcgisLayer >> }

service_types(layer) == IF layer = ArcgisLayer THEN "arcgis" ELSE "wfs"

\* The parameters of one request.
get_params(layer, start_index) ==
    IF service_types(layer) = "arcgis"
    THEN [ TYPENAMES |-> layer, STARTINDEX |-> 0, COUNT |-> 0 ]
    ELSE [ TYPENAMES |-> layer, STARTINDEX |-> start_index, COUNT |-> BatchSize ]

\* The text of the response to a request.
ResponseText(params) == [ layer |-> params.TYPENAMES, start_index |-> params.STARTINDEX ]

\* A call of _fetch_chunk (or _fetch_arcgis_data) that has not run yet.
NewChunk(layer, start_index) ==
    [ layer |-> layer, start_index |-> start_index, pc |-> "created",
      attempt |-> 0, requests |-> << >>, outcomes |-> << >> ]

\* The retry decorator gives up after six attempts.
stop_after_six(attempt) == attempt >= MaxAttempts + 1

\* stop_after_attempt(5): no attempt follows the fifth.
stop_after_attempt(attempt) == attempt >= MaxAttempts

\* Every caller may enter the request section.
locked_never(sem) == FALSE

\* Semaphore.locked(): no permit is free, or somebody is queued already.
locked(sem) == sem.value = 0 \/ sem.waiters # << >>

\* Semaphore.release(): the first waiter, if any, takes the freed permit.
release(sem) ==
    IF sem.waiters = << >>
    THEN [ sem EXCEPT !.value = @ + 1 ]
    ELSE [ sem EXCEPT !.waiters = Tail(@) ]

\* The waiter that release() wakes, 0 if none.
Woken(sem) == IF sem.waiters = << >> THEN 0 ELSE Head(sem.waiters)

\* The chunks after chunk i left the request section with pc p.
LeaveRequest(i, p, outcome) ==
    [ k \in DOMAIN chunks |->
        IF k = i
        THEN [ chunks[k] EXCEPT !.pc = p, !.outcomes = Append(@, outcome) ]
        ELSE IF k = Woken(request_semaphore)
             THEN [ chunks[k] EXCEPT !.pc = "requesting" ]
             ELSE chunks[k] ]

\* fetch, with two notes for the record: a task ended before a task created
\* earlier, and the layer in which a call gave up.
NoteEnd(i, p) ==
    [ fetch EXCEPT
        !.overtaken =
            @ \/ (p \in { "returned", "raised" }
                    /\ \E k \in 1..(i - 1) : chunks[k].pc \notin { "returned", "raised" }),
        !.failed = IF p = "raised" /\ @ = 0 THEN fetch.layer ELSE @ ]

\* An attempt starts: `async with self.config.request_semaphore` and the request.
Acquire(i) ==
    /\ chunks[i].pc \in { "created", "backoff" }
    /\ LET params == get_params(chunks[i].layer, chunks[i].start_index)
           started == [ chunks[i] EXCEPT !.attempt = @ + 1,
                                         !.requests = Append(@, params) ]
       IN IF locked(request_semaphore)
          THEN /\ chunks' = [ chunks EXCEPT ![i] = [ started EXCEPT !.pc = "waiting" ] ]
               /\ request_semaphore' =
                     [ request_semaphore EXCEPT !.waiters = Append(@, i) ]
          ELSE /\ chunks' = [ chunks EXCEPT ![i] = [ started EXCEPT !.pc = "requesting" ] ]
               /\ request_semaphore' = [ request_semaphore EXCEPT !.value = @ - 1 ]
    /\ UNCHANGED << fetch, pipeline, pc, geo_df, pos, merged, merged_polygons,
                    dissolved_gdf, validation, dissolved_df, error, errlog, saved,
                    save_calls, run_no, first_groups, probe, report >>

\* The attempt returns the parsed response; the permit is released on the way out.
RequestSucceeds(i) ==
    /\ chunks[i].pc = "requesting"
    /\ chunks' = LeaveRequest(i, "returned", "ok")
    /\ request_semaphore' = release(request_semaphore)
    /\ fetch' = NoteEnd(i, "returned")
    /\ UNCHANGED << pipeline, pc, geo_df, pos, merged, merged_polygons,
                    dissolved_gdf, validation, dissolved_df, error, errlog, saved,
                    save_calls, run_no, first_groups, probe, report >>

\* The attempt raises; the permit is released on the way out, and the retry
\* decorator sleeps before the next attempt or gives up.
RequestFails(i) ==
    /\ chunks[i].pc = "requesting"
    /\ LET p == IF stop_after_attempt(chunks[i].attempt) THEN "raised" ELSE "backoff"
       IN /\ chunks' = LeaveRequest(i, p, "fail")
          /\ fetch' = NoteEnd(i, p)
    /\ request_semaphore' = release(request_semaphore)
    /\ UNCHANGED << pipeline, pc, geo_df, pos, merged, merged_polygons,
                    dissolved_gdf, validation, dissolved_df, error, errlog, saved,
                    save_calls, run_no, first_groups, probe, report >>

RECURSIVE range_from(_, _, _)
\* range(start, stop, step) as a sequence.
range_from(start, stop, step) ==
    IF start >= stop THEN << >>
    ELSE << start >> \o range_from(start + step, stop, step)

\* The remaining chunks start one batch after the first.
ChunkStartsFromBatch(returned_features, total_features) ==
    range_from(BatchSize, total_features, BatchSize)

\* range(returned_features, total_features, self.config.batch_size)
ChunkStarts(returned_features, total_features) ==
    range_from(returned_features, total_features, BatchSize)

\* The texts of the chunks that returned, the failed ones left out.
collect_skipping_errors(results) ==
    [ raised |-> FALSE,
      texts |-> [ k \in 1..Len(SelectSeq(results, LAMBDA c : c.pc = "returned")) |->
                    ResponseText(SelectSeq(results, LAMBDA c : c.pc = "returned")[k]
                                   .requests[1]) ] ]

\* The loop over the results of asyncio.gather: the first exception is raised,
\* otherwise every text is appended in the order of the tasks.
collect_results(results) ==
    IF \E k \in DOMAIN results : results[k].pc = "raised"
    THEN [ raised |-> TRUE, texts |-> << >> ]
    ELSE [ raised |-> FALSE,
           texts |-> [ k \in DOMAIN results |-> ResponseText(results[k].requests[1]) ] ]

\* raw_data_with_metadata = [(layer, data) for data in raw_data]
with_metadata(layer, raw_data) ==
    [ k \in DOMAIN raw_data |-> << layer, raw_data[k] >> ]

\* create_dataframe: one row per fetched text.
create_dataframe(raw_data) ==
    [ k \in DOMAIN raw_data |-> [ payload |-> raw_data[k][2], layer |-> raw_data[k][1] ] ]

Terminal(c) == c.pc \in { "returned", "raised" }

InitBronze ==
    /\ NoRun
    /\ probe = NoProbe
    /\ report = NoProbe
    /\ chunks = << >>
    /\ request_semaphore = FreeSemaphore
    /\ \E ls \in LayerConfigs, total \in 0..MaxTotal, returned \in 0..BatchSize :
          fetch = [ pc |-> "layers", layers |-> ls, layer |-> 0,
                    numberMatched |-> total, numberReturned |-> returned,
                    total_features |-> 0, returned_features |-> 0,
                    calls |-> << >>, wfs_features |-> << >>, wfs_returned |-> << >>,
                    raw_features |-> << >>, error |-> FALSE, save_calls |-> 0,
                    saved |-> << >>, log |-> {}, overtaken |-> FALSE,
                    failed |-> 0 ]

\* _fetch_raw_data: the next layer of the loop is fetched.
FetchLayer ==
    /\ fetch.pc = "layers"
    /\ fetch.layer < Len(fetch.layers)
    /\ LET layer == fetch.layers[fetch.layer + 1]
       IN /\ chunks' = << NewChunk(layer, 0) >>
          /\ fetch' = [ fetch EXCEPT
                          !.layer = @ + 1,
                          !.pc = IF service_types(layer) = "arcgis" THEN "arcgis" ELSE "first",
                          !.calls = IF service_types(layer) = "arcgis" THEN @ ELSE << 0 >>,
                          !.wfs_features = << >> ]
    /\ UNCHANGED << request_semaphore, pipeline, pc, geo_df, pos, merged, merged_polygons,
                    dissolved_gdf, validation, dissolved_df, error, errlog, saved,
                    save_calls, run_no, first_groups, probe, report >>

\* _fetch_wfs_data: the first chunk returned; the tasks of the remaining chunks
\* are created and handed to asyncio.gather.
GatherChunks ==
    /\ fetch.pc = "first"
    /\ chunks[1].pc = "returned"
    /\ LET starts == ChunkStarts(fetch.numberReturned, fetch.numberMatched)
       IN /\ chunks' = [ k \in DOMAIN starts |-> NewChunk(chunks[1].layer, starts[k]) ]
          /\ fetch' = [ fetch EXCEPT
                          !.pc = "gather",
                          !.total_features = fetch.numberMatched,
                          !.returned_features = fetch.numberReturned,
                          !.wfs_features = << ResponseText(chunks[1].requests[1]) >>,
                          !.calls = @ \o starts ]
    /\ UNCHANGED << request_semaphore, pipeline, pc, geo_df, pos, merged, merged_polygons,
                    dissolved_gdf, validation, dissolved_df, error, errlog, saved,
                    save_calls, run_no, first_groups, probe, report >>

\* The first chunk, or the ArcGIS request, failed for the last time: the error
\* leaves _fetch_raw_data and run().
FirstRaises ==
    /\ fetch.pc \in { "first", "arcgis" }
    /\ chunks[1].pc = "raised"
    /\ fetch' = [ fetch EXCEPT !.pc = "raised", !.error = TRUE,
                               !.log = @ \cup { "Error occured while fetching chunk" } ]
    /\ UNCHANGED << chunks, request_semaphore, pipeline, pc, geo_df, pos, merged,
                    merged_polygons, dissolved_gdf, validation, dissolved_df, error,
                    errlog, saved, save_calls, run_no, first_groups, probe, report >>

\* Every task of asyncio.gather has ended and none failed: _fetch_wfs_data
\* returns, and _fetch_raw_data extends its list.
CollectReturns ==
    /\ fetch.pc = "gather"
    /\ \A k \in DOMAIN chunks : Terminal(chunks[k])
    /\ ~collect_results(chunks).raised
    /\ LET raw_data == fetch.wfs_features \o collect_results(chunks).texts
       IN fetch' = [ fetch EXCEPT
                       !.pc = "layers",
                       !.wfs_features = raw_data,
                       !.wfs_returned = raw_data,
                       !.raw_features =
                           @ \o with_metadata(fetch.layers[fetch.layer], raw_data) ]
    /\ chunks' = << >>
    /\ UNCHANGED << request_semaphore, pipeline, pc, geo_df, pos, merged, merged_polygons,
                    dissolved_gdf, validation, dissolved_df, error, errlog, saved,
                    save_calls, run_no, first_groups, probe, report >>

\* Every task of asyncio.gather has ended and one failed: the loop over the
\* results raises it.
CollectRaises ==
    /\ fetch.pc = "gather"
    /\ \A k \in DOMAIN chunks : Terminal(chunks[k])
    /\ collect_results(chunks).raised
    /\ fetch' = [ fetch EXCEPT !.pc = "raised", !.error = TRUE,
                               !.log = @ \cup { "Error occurred while fetching chunk",
                                                "Error occured while fetching chunk" } ]
    /\ UNCHANGED << chunks, request_semaphore, pipeline, pc, geo_df, pos, merged,
                    merged_polygons, dissolved_gdf, validation, dissolved_df, error,
                    errlog, saved, save_calls, run_no, first_groups, probe, report >>

\* _fetch_arcgis_data returned its one text.
ArcgisReturns ==
    /\ fetch.pc = "arcgis"
    /\ chunks[1].pc = "returned"
    /\ fetch' = [ fetch EXCEPT
                    !.pc = "layers",
                    !.raw_features =
                        @ \o with_metadata(fetch.layers[fetch.layer],
                                           << ResponseText(chunks[1].requests[1]) >>) ]
    /\ chunks' = << >>
    /\ UNCHANGED << request_semaphore, pipeline, pc, geo_df, pos, merged, merged_polygons,
                    dissolved_gdf, validation, dissolved_df, error, errlog, saved,
                    save_calls, run_no, first_groups, probe, report >>

\* run(): _fetch_raw_data returned a list, which is saved.
RunSaves ==
    /\ fetch.pc = "layers"
    /\ fetch.layer = Len(fetch.layers)
    /\ fetch.raw_features # << >>
    /\ fetch' = [ fetch EXCEPT !.pc = "done", !.save_calls = @ + 1,
                               !.saved = create_dataframe(fetch.raw_features) ]
    /\ UNCHANGED << chunks, request_semaphore, pipeline, pc, geo_df, pos, merged,
                    merged_polygons, dissolved_gdf, validation, dissolved_df, error,
                    errlog, saved, save_calls, run_no, first_groups, probe, report >>

\* run(): _fetch_raw_data returned None, and run() returns without saving.
RunNoData ==
    /\ fetch.pc = "layers"
    /\ fetch.layer = Len(fetch.layers)
    /\ fetch.raw_features = << >>
    /\ fetch' = [ fetch EXCEPT !.pc = "done", !.log = @ \cup { "No raw data fetched" } ]
    /\ UNCHANGED << chunks, request_semaphore, pipeline, pc, geo_df, pos, merged,
                    merged_polygons, dissolved_gdf, validation, dissolved_df, error,
                    errlog, saved, save_calls, run_no, first_groups, probe, report >>

NextBronze ==
    \/ FetchLayer
    \/ GatherChunks
    \/ FirstRaises
    \/ CollectReturns
    \/ CollectRaises
    \/ ArcgisReturns
    \/ RunSaves
    \/ RunNoData
    \/ \E i \in DOMAIN chunks : Acquire(i)
    \/ \E i \in DOMAIN chunks : RequestSucceeds(i)
    \/ \E i \in DOMAIN chunks : RequestFails(i)

SpecBronze == InitBronze /\ [][NextBronze]_vars

\* The largest number of tasks handed to asyncio.gather.
MaxChunks == (MaxTotal + BatchSize - 1) \div BatchSize


\* A request ends (the session has a timeout) and a sleeping retry wakes up.
FairBronze ==
    /\ WF_vars(\E i \in DOMAIN chunks : Acquire(i))
    /\ \A i \in 1..MaxChunks :
          WF_vars(i \in DOMAIN chunks /\ (RequestSucceeds(i) \/ RequestFails(i)))

SpecBronzeLive == InitBronze /\ [][NextBronze]_vars /\ FairBronze

----------------------------------------------------------------------------
(* Properties of the bronze fetch                                          *)

\* The start indices returned_features, returned_features + batch_size, ...
\* below total_features, in increasing order.
ExpectedStarts ==
    LET S == { s \in 0..MaxTotal :
                 /\ s >= fetch.returned_features
                 /\ s < fetch.total_features
                 /\ (s - fetch.returned_features) % BatchSize = 0 }
    IN [ k \in 1..Cardinality(S) |-> fetch.returned_features + (k - 1) * BatchSize ]

\* C21: _fetch_wfs_data calls _fetch_chunk for start index 0 first and then
\* once for each start index returned_features, returned_features + batch_size,
\* ... below total_features; the list it returns holds the first chunk's text
\* followed by the other chunks' texts in increasing start-index order, also
\* when a later task ended before an earlier one.
C21_Pagination ==
    /\ fetch.pc = "first" => fetch.calls = << 0 >>
    /\ fetch.pc = "gather" =>
          /\ fetch.calls = << 0 >> \o ExpectedStarts
          /\ [ k \in DOMAIN chunks |-> chunks[k].start_index ] = ExpectedStarts
          /\ \A k \in DOMAIN chunks : \A r \in DOMAIN chunks[k].requests :
                chunks[k].requests[r].STARTINDEX = ExpectedStarts[k]
    /\ fetch.wfs_returned # << >> =>
          fetch.wfs_returned =
              [ k \in 1..(Len(ExpectedStarts) + 1) |->
                  [ layer |-> WfsLayer,
                    start_index |-> IF k = 1 THEN 0 ELSE ExpectedStarts[k - 1] ] ]

\* A fetch of four remaining chunks returned although a later task had ended
\* before an earlier one.
C21_Witness ==
    /\ Len(fetch.wfs_returned) = 5
    /\ fetch.returned_features = 1
    /\ fetch.overtaken

\* C22: when a chunk of a layer has failed for the last time, _fetch_wfs_data
\* returns no list for that layer, _fetch_raw_data raises in that layer, and
\* run() never calls _save_raw_data; when nothing was fetched run() saves
\* nothing either.
C22_AllOrNothing ==
    /\ fetch.failed # 0 =>
          /\ fetch.pc \in { "first", "gather", "arcgis", "raised" }
          /\ fetch.layer = fetch.failed
          /\ service_types(fetch.layers[fetch.layer]) = "wfs" => fetch.wfs_returned = << >>
          /\ fetch.save_calls = 0
          /\ fetch.saved = << >>
    /\ fetch.pc = "raised" => fetch.failed # 0 /\ fetch.error
    /\ (fetch.pc = "done" /\ fetch.raw_features = << >>) => fetch.save_calls = 0
    /\ fetch.save_calls > 0 => fetch.saved = create_dataframe(fetch.raw_features)

\* Mixed results: of three or more parallel chunks some returned and one gave
\* up, and the fetch raised.
C22_Witness ==
    /\ fetch.pc = "raised"
    /\ Len(chunks) >= 3
    /\ \E k \in DOMAIN chunks : chunks[k].pc = "returned"
    /\ \E k \in DOMAIN chunks : chunks[k].pc = "raised"
    /\ fetch.save_calls = 0

----------------------------------------------------------------------------
(* Properties of the dissolve, the repair and the merge loop (continued)    *)

\* The position inside _create_dissolved_df: 0 before the statistics of the
\* input, 1 in the merge, 2 when the new collection is built, 3 after the
\* statistics of the output, 4 when the repair returned.
DissolveStep(p) ==
    CASE p = "processed" -> 0
      [] p = "merging" -> 1
      [] p = "built" -> 2
      [] p = "validating" -> 3
      [] p = "dissolved" -> 4
      [] OTHER -> 5

\* What each position of the wetlands dissolve has done and not yet done.
DissolveProgress ==
    pipeline = "wetlands" =>
       /\ pc \in { "processed", "merging" } => dissolved_gdf = None
       /\ pc \in { "built", "validating" } =>
             /\ LoopFinished
             /\ dissolved_gdf = BuildDissolvedFrame(merged_polygons, geo_df.crs)
       /\ pc \in { "processed", "merging", "built", "validating" } =>
             /\ ~validation.called
             /\ dissolved_df = None
       /\ pc = "dissolved" =>
             /\ LoopFinished
             /\ validation.called
             /\ validation.label = "silver.wetlands_dissolved"
             /\ validation.input = BuildDissolvedFrame(merged_polygons, geo_df.crs)
             /\ dissolved_df = validation.result

\* A step of the wetlands dissolve leads to the next position or to the handler.
DissolveAdvances ==
    (pipeline = "wetlands" /\ DissolveStep(pc) \in 0..3 /\ pc' # pc) =>
        \/ DissolveStep(pc') = DissolveStep(pc) + 1
        \/ pc' = "failed"

\* C23: _create_dissolved_df of the wetlands performs, in this order and each
\* once, the statistics of the input, the adjacency merge, the construction of
\* the new collection with identifiers, the statistics of the merged output
\* and the repair, called with the label "silver.wetlands_dissolved" on the
\* collection just built, and returns what the repair returned.
C23_DissolveStepOrder == []DissolveProgress /\ [][DissolveAdvances]_vars

\* A dissolve that merged two of three features and returned.
C23_Witness ==
    /\ pipeline = "wetlands"
    /\ pc = "dissolved"
    /\ Len(merged_polygons) = 2
    /\ Len(geo_df.rows) = 3
    /\ validation.label = "silver.wetlands_dissolved"
    /\ Len(dissolved_df.rows) = 2

\* The steps of the repair in the order of the code, for an input in the
\* given CRS.
RepairOrder(crs) ==
    (IF crs = METRIC_CRS THEN << >> ELSE << "to_crs_utm" >>)
    \o << "buffer0", "is_valid", "to_crs_wgs84", "buffer0", "is_valid", "is_simple", "drop" >>

IsPrefix(s, t) == Len(s) <= Len(t) /\ s = SubSeq(t, 1, Len(s))

\* The k-th geometry of the call after the conversion to UTM and buffer(0).
CleanedInUtm(k) == buffer0(reproject(RepairInput(k), METRIC_CRS))

\* C24: the repair runs the conversion to EPSG:25832 (only for an input in
\* another CRS), buffer(0), the validity check, the conversion to EPSG:4326,
\* buffer(0), the validity check, the simplicity check and the removal of null
\* and empty geometries in that order; it raises at the first check that fails
\* and runs no later step, so a failed validity check in EPSG:25832 is never
\* followed by the conversion to EPSG:4326.
C24_RepairStepOrder ==
    validation.called =>
       LET order == RepairOrder(validation.input.crs)
           steps == validation.steps
           skip == Len(order) - 7
       IN  /\ IsPrefix(steps, order)
           /\ validation.raised <=> steps # order
           /\ validation.error.text = "invalid geometries after cleanup" =>
                 /\ Len(steps) = skip + 2
                 /\ "to_crs_wgs84" \notin Range(steps)
                 /\ validation.result = None
           /\ validation.error.text = "invalid geometries after WGS84 conversion" =>
                 Len(steps) = skip + 5
           /\ validation.error.text = "self-intersecting geometries" =>
                 Len(steps) = skip + 6
           /\ ( /\ validation.input.crs # "none"
                /\ \A k \in 1..Len(validation.input.rows) : ~is_null(RepairInput(k))
                /\ \E k \in 1..Len(validation.input.rows) : ~is_valid(CleanedInUtm(k)) )
                  => validation.error.text = "invalid geometries after cleanup"

\* A collection that came in EPSG:4326 failed the validity check in EPSG:25832:
\* the call stopped there.
C24_Witness ==
    /\ validation.called
    /\ validation.raised
    /\ validation.input.crs = WGS84_CRS
    /\ validation.steps = << "to_crs_utm", "buffer0", "is_valid" >>
    /\ Len(validation.input.rows) >= 2

\* Every geometry of the call is null, or comes out of the repair steps valid
\* and simple.
OnlyNullsCanFail ==
    /\ validation.input.crs # "none"
    /\ \A k \in 1..Len(validation.input.rows) :
          \/ is_null(RepairInput(k))
          \/ /\ is_valid(RepairedGeometry(RepairInput(k)))
             /\ is_simple(RepairedGeometry(RepairInput(k)))

\* C25 as stated: defensive cleanup.  The repair removes every feature whose
\* geometry is null or empty instead of failing on it: the output is the input
\* without exactly those features, in the same relative order, and the output
\* count is at most the input count.
C25_DefensiveCleanup ==
    (validation.called /\ OnlyNullsCanFail) =>
       /\ ~validation.raised
       /\ Geometries(validation.result) =
            SelectSeq([ k \in 1..Len(validation.input.rows) |->
                          IF is_null(RepairInput(k)) THEN NullGeom
                          ELSE RepairedGeometry(RepairInput(k)) ],
                      LAMBDA g : ~is_null(g) /\ ~is_empty(g))
       /\ validation.final_count <= validation.initial_count

\* C25 failing call: a collection of sound geometries and one null geometry;
\* the first buffer(0) raised and nothing was returned.
C25_Witness ==
    /\ validation.called
    /\ OnlyNullsCanFail
    /\ Len(validation.input.rows) >= 2
    /\ \E k \in 1..Len(validation.input.rows) : is_null(RepairInput(k))
    /\ \E k \in 1..Len(validation.input.rows) : RepairInput(k) = [ CellA EXCEPT !.frame = METRIC_CRS ]
    /\ validation.raised
    /\ validation.error.type = "AttributeError"
    /\ validation.result = None

\* The merge loop is running.
InMergeLoop == pipeline = "wetlands" /\ pc = "merging"

\* What holds at the top of every turn of the merge loop and after it.
MergeLoopProgress ==
    pipeline = "wetlands" /\ pc \in { "merging", "built", "validating", "dissolved" } =>
       /\ pos \in 0..NumRows
       /\ 1..pos \subseteq merged
       /\ merged \subseteq 1..NumRows
       /\ Len(merged_polygons) <= pos
       /\ \A k \in 1..Len(merged_polygons) : merged_polygons[k].seed \in 1..pos
       /\ \A j, k \in 1..Len(merged_polygons) :
             j < k => merged_polygons[j].seed < merged_polygons[k].seed
       /\ LoopFinished =>
             /\ merged = 1..NumRows
             /\ NumRows >= 1 => Len(merged_polygons) \in 1..NumRows

\* One turn of the merge loop: the next row in input order is taken, the
\* merged set does not shrink, and a turn that is not skipped adds its seed and
\* one group.
MergeLoopTurn ==
    (InMergeLoop /\ pc' = "merging") =>
       /\ pos < NumRows
       /\ pos' = pos + 1
       /\ merged \subseteq merged'
       /\ IF (pos + 1) \in merged
            THEN merged' = merged /\ merged_polygons' = merged_polygons
            ELSE /\ (pos + 1) \in merged'
                 /\ Len(merged_polygons') = Len(merged_polygons) + 1
                 /\ merged_polygons'[Len(merged_polygons')].seed = pos + 1
                 /\ SubSeq(merged_polygons', 1, Len(merged_polygons)) = merged_polygons

\* C26: in the merge loop the merged set only grows, every turn that is not
\* skipped adds at least its seed, each feature is visited once in input
\* order, and the loop ends after at most n turns (every step inside the loop
\* takes the next row, and there are n rows) with every one of the n indices
\* merged and between 1 and n groups.
C26_MergeLoopTerminates == []MergeLoopProgress /\ [][MergeLoopTurn]_vars

\* The loop fell out after three turns, one of them skipped.
C26_Witness ==
    /\ pipeline = "wetlands"
    /\ pc = "built"
    /\ NumRows = 3
    /\ pos = 3
    /\ merged = 1..3
    /\ Len(merged_polygons) = 2
    /\ MembersOf(1) = { 1, 3 }

----------------------------------------------------------------------------
(* Properties of the bronze fetch (continued)                              *)

\* The attempts of one call that have ended.
EndedAttempts(c) == IF c.pc \in { "waiting", "requesting" } THEN c.attempt - 1 ELSE c.attempt

Requesting == { i \in DOMAIN chunks : chunks[i].pc = "requesting" }

Queued == { i \in DOMAIN chunks : chunks[i].pc = "waiting" }

\* The permits are all accounted for: each is free or held by a call inside
\* the request section, and a call queues only while none is free.
PermitsConserved ==
    /\ request_semaphore.value \in 0..max_concurrent
    /\ request_semaphore.value + Cardinality(Requesting) = max_concurrent
    /\ Cardinality(Requesting) <= 3
    /\ Range(request_semaphore.waiters) = Queued
    /\ Len(request_semaphore.waiters) = Cardinality(Queued)
    /\ Queued # {} => request_semaphore.value = 0

\* C28: of the chunk tasks started together at most max_concurrent (3) are
\* inside the request section at the same time; the permit of an attempt is
\* released when the attempt ends, by return or by exception, so a call
\* sleeping between two attempts holds none, and every call queued at the
\* semaphore gets its permit.
C28_ConcurrencyLimit ==
    /\ []PermitsConserved
    /\ \A i \in 1..MaxChunks :
          (i \in Queued) ~> (i \in Requesting)

\* Four tasks: three inside the request section, the fourth queued while a
\* permit is out, and later the fourth inside while another sleeps between
\* attempts.
C28_Witness ==
    /\ Len(chunks) = 4
    /\ Cardinality(Requesting) = 3
    /\ 4 \in Requesting
    /\ \E i \in DOMAIN chunks : chunks[i].pc = "backoff"
    /\ request_semaphore.value = 0

----------------------------------------------------------------------------
(* The merge without the spatial index                                     *)

\* The members of a set of row numbers in increasing order.
RECURSIVE Ascending(_)
Ascending(S) ==
    IF S = {} THEN << >> ELSE << Min(S) >> \o Ascending(S \ { Min(S) })

\* The merge that tests each seed against every other row not merged yet,
\* without an index, from row idx on.
RECURSIVE AllPairsMerge(_, _, _)
AllPairsMerge(df, idx, done) ==
    IF idx > Len(df.rows) THEN << >>
    ELSE IF idx \in done THEN AllPairsMerge(df, idx + 1, done)
    ELSE LET joined == { j \in (1..Len(df.rows)) \ (done \cup { idx }) :
                           shares_edge(df.rows[idx].geometry, df.rows[j].geometry) }
         IN  << [ seed |-> idx, members |-> { idx } \cup joined,
                  geometry |-> MergeGroup(df, << idx >> \o Ascending(joined)) ] >>
             \o AllPairsMerge(df, idx + 1, done \cup { idx } \cup joined)

\* The groups of the merge loop so far: seed, member set and merged geometry.
GroupsSoFar ==
    [ k \in 1..Len(merged_polygons) |->
        [ seed |-> SeedOf(k), members |-> MembersOf(k),
          geometry |-> merged_polygons[k].geometry ] ]

\* C29: the spatial index is only a filter.  With an index that returns every
\* row whose bounding box meets the seed's, the groups of the merge loop are
\* those of the merge that tests each seed against all other rows not merged
\* yet, whatever the order in which the index returns its candidates: the
\* groups formed so far are the first groups of that merge, and all of them
\* when the loop has finished.
C29_IndexIsOnlyAFilter ==
    (pipeline = "wetlands" /\ pc \in { "merging", "built", "validating", "dissolved" }) =>
       LET reference == AllPairsMerge(geo_df, 1, {})
       IN  /\ Len(merged_polygons) <= Len(reference)
           /\ GroupsSoFar = SubSeq(reference, 1, Len(merged_polygons))
           /\ LoopFinished => Len(merged_polygons) = Len(reference)
           /\ \A k \in 1..Len(merged_polygons) :
                 MembersOf(k) \subseteq
                    sindex_intersection(geo_df, bounds(GeometryAt(SeedOf(k))))

\* The index returned the two neighbours of the seed with the later row
\* first; the group is the one the merge without index forms.
C29_Witness ==
    /\ pipeline = "wetlands"
    /\ pc = "built"
    /\ NumRows = 3
    /\ Len(merged_polygons) = 1
    /\ merged_polygons[1].members = << 1, 3, 2 >>

----------------------------------------------------------------------------
(* The input of the dissolve                                               *)

\* _create_dissolved_df is running or about to run on geo_df.
InDissolve == pc \in { "processed", "merging", "built", "validating" }

\* A step of _create_dissolved_df leaves the caller's collection as it is.
DissolveKeepsInput == InDissolve => geo_df' = geo_df

\* C30 as stated: the dissolve leaves its input unchanged.  No step of
\* _create_dissolved_df, whether the call returns or raises, changes the
\* features, the columns or the geometries of the collection it was given, and
\* the original collection that run() saves has the columns the parser made.
C30_InputUnchanged ==
    /\ [][DissolveKeepsInput]_vars
    /\ [](saved # << >> =>
            /\ saved[1].data = geo_df
            /\ saved[1].data.columns = InputColumns)

\* C30 failing run: the wetlands dissolve returned and the original collection
\* was saved with a column `idx` the parser did not make.
C30_Witness ==
    /\ pipeline = "wetlands"
    /\ pc = "done"
    /\ "idx" \notin InputColumns
    /\ saved[1].dataset = "wetlands"
    /\ saved[1].data.columns = InputColumns \cup { "idx" }
    /\ Len(saved[1].data.rows) >= 2

=============================================================================
